---------------------------- MODULE Spec2Model ----------------------------
(***************************************************************************)
(* Watch Together server (src/server/server.py): one Room, its signaling   *)
(* channels, the ready-sync barrier, the barrier timeout tasks, the       *)
(* upload endpoint and the sweep of expired Rooms, as asyncio tasks that   *)
(* run atomically from one suspension point (an await that yields) to the  *)
(* next.                                                                   *)
(*                                                                         *)
(* Conventions: 0 stands for None / absent.  A channel is one accepted     *)
(* WebSocket; the username a channel presents in auth is identified with   *)
(* the channel's number, and 0 is the username "Unknown".                  *)
(***************************************************************************)
EXTENDS Naturals, Integers, Sequences, FiniteSets, TLC

\* ------------------------------------------------------------- bounds
NChan == 3        \* WebSocket connections accepted over the whole run
NIds == 3         \* user_id values a client may present in auth
NVids == 2        \* uploads (each mints one fresh video id)
MaxShares == 2    \* accepted play_video messages over the whole run
MaxYield == 1     \* outbound sends that actually suspend their task
MAX_FILE_SIZE == 3  \* the upload size cap, in bytes
chunk_size == 2     \* the most bytes one file.read() returns
MAX_JOIN_ATTEMPTS == 2      \* join requests admitted per lockout window
JOIN_LOCKOUT_SECONDS == 3   \* the lockout window, in ticks of the clock
MaxClock == 7               \* ticks of the clock over the whole run
MaxOpens == 2               \* channels one client opens over the whole run
MaxSessions == 1            \* sessions the user of one client starts
max_reconnect_attempts == 5 \* SessionClient._max_reconnect_attempts

host_id == 1      \* Room.host_id: the id create_room minted for the creator

Chans == 1..NChan
Ids == 1..NIds
Vids == 1..NVids
Timers == (NChan + 1)..(NChan + MaxShares)
Uploads == (NChan + MaxShares + 1)..(NChan + MaxShares + NVids)
Tasks == 1..(NChan + MaxShares + NVids)   \* channels, timers, uploads
Positions == {0, 1}     \* playback position: 0 is the start, 1 any other
Speeds == {1, 2}        \* playback speed: 1 is normal, 2 any other
Sizes == 0..(MAX_FILE_SIZE + 1)   \* the size of an upload, in bytes

VARIABLES
    users,          \* Room.users: insertion-ordered <<[id, ch]>>
    current_video,  \* Room.current_video
    videos,         \* Room.videos (the catalogue's video ids)
    shared_pool,    \* Room.shared_pool
    pending_video,  \* Room.pending_video
    ready_users,    \* Room.ready_users
    playback_state, \* Room.playback_state: [playing, position, speed]
    ws,             \* per channel: "closed", "open", "gone" (peer left), "shut" (server closed it)
    pc,             \* per task: where its coroutine is suspended
    uid,            \* per channel: the handler's local user_id
    bc,             \* per task: the broadcast() call it is suspended in
    loc,            \* per task: locals kept across a suspension (video id, kick target)
    yields,         \* sends that suspended so far
    nShares,        \* play_video messages accepted so far
    present,        \* history: the participant ids at the last accepted play_video
    alive,          \* room_code in state.rooms
    expired,        \* Room.is_expired: now - last_activity exceeds the horizon
    disk,           \* the Room's upload directory: [dir, files (by video id)]
    vsize,          \* Room.videos[v]["size"], 0 where there is no entry
    sweep,          \* cleanup_expired: [pc, todo (the sockets still to close)]
    clock,          \* time.time()
    join_attempts,  \* state.join_attempts[ip] of the one remote address
    joining,        \* join requests admitted and reading their body
    admitted,       \* history: when each admitted join request arrived
    issued,         \* history: the ids create_room and join_room have returned
    cl,             \* one SessionClient: its fields, threads, timers and channels
    pl              \* the VideoPlayer and SessionPanel of that client

vars == <<users, current_video, videos, shared_pool, pending_video, ready_users,
          playback_state, ws, pc, uid, bc, loc, yields, nShares, present,
          alive, expired, disk, vsize, sweep,
          clock, join_attempts, joining, admitted, issued, cl, pl>>

\* The whole state as one record, so that handler code composes as functions.
\* Its field out collects what one step emits: the messages a handler sends
\* directly and a summary of every fan-out that ends in the step.  It is not
\* part of the state: a step's output is read off the handler's result.
Cur ==
    [users |-> users, current_video |-> current_video, videos |-> videos,
     shared_pool |-> shared_pool, pending_video |-> pending_video,
     ready_users |-> ready_users, playback_state |-> playback_state,
     ws |-> ws, pc |-> pc, uid |-> uid, bc |-> bc, loc |-> loc,
     yields |-> yields, nShares |-> nShares, present |-> present,
     alive |-> alive, expired |-> expired, disk |-> disk, vsize |-> vsize,
     sweep |-> sweep, clock |-> clock, join_attempts |-> join_attempts,
     joining |-> joining, admitted |-> admitted, issued |-> issued, cl |-> cl,
     pl |-> pl,
     out |-> {}]

Set(m) ==
    /\ users' = m.users
    /\ current_video' = m.current_video
    /\ videos' = m.videos
    /\ shared_pool' = m.shared_pool
    /\ pending_video' = m.pending_video
    /\ ready_users' = m.ready_users
    /\ playback_state' = m.playback_state
    /\ ws' = m.ws
    /\ pc' = m.pc
    /\ uid' = m.uid
    /\ bc' = m.bc
    /\ loc' = m.loc
    /\ yields' = m.yields
    /\ nShares' = m.nShares
    /\ present' = m.present
    /\ alive' = m.alive
    /\ expired' = m.expired
    /\ disk' = m.disk
    /\ vsize' = m.vsize
    /\ sweep' = m.sweep
    /\ clock' = m.clock
    /\ join_attempts' = m.join_attempts
    /\ joining' = m.joining
    /\ admitted' = m.admitted
    /\ issued' = m.issued
    /\ cl' = m.cl
    /\ pl' = m.pl

\* ------------------------------------------------------- Room.users
Keys(us) == {us[i].id : i \in DOMAIN us}

IndexOf(us, u) ==
    IF u \in Keys(us) THEN CHOOSE i \in DOMAIN us : us[i].id = u ELSE 0

\* room.users.get(u): the channel registered under u, or 0
UserGet(us, u) == IF u \in Keys(us) THEN us[IndexOf(us, u)].ch ELSE 0

\* the channels registered under an id other than ex
Audience(us, ex) == {us[i].ch : i \in {j \in DOMAIN us : us[j].id # ex}}

RemoveAt(s, j) == [i \in 1..(Len(s) - 1) |-> IF i < j THEN s[i] ELSE s[i + 1]]

\* ep is history: the number of shares accepted when the handler of a ready
\* message started its fan-out
NoBc ==
    [typ |-> "none", ex |-> 0, i |-> 0, n |-> 0, failed |-> {}, sent |-> {},
     aud |-> {}, k |-> "none", vid |-> 0, commit |-> FALSE, ready |-> 0,
     total |-> 0, name |-> 0, ep |-> 0]

\* the locals of a task; ep and met are history of a timer task: the share
\* that created it, and whether the barrier it was created for has since
\* been committed by readiness
NoLoc ==
    [vid |-> 0, target |-> 0, name |-> 0, left |-> 0, size |-> 0, ep |-> 0,
     met |-> FALSE]

\* room.users[u] = User(websocket = c): a new key is appended, an existing
\* key keeps its place and has its value replaced
UsersPut(m, u, c) ==
    IF u \in Keys(m.users)
    THEN [m EXCEPT !.users[IndexOf(m.users, u)].ch = c]
    ELSE [m EXCEPT !.users = Append(@, [id |-> u, ch |-> c])]

\* room.users.pop(u, None).  A dict iterator suspended past the removed entry
\* keeps pointing at the same entry (the slot is left as a tombstone).
RECURSIVE Shifted(_, _, _)
Shifted(bcs, j, t) ==
    IF t = 0 THEN bcs
    ELSE Shifted(IF bcs[t].typ # "none" /\ bcs[t].i > j
                 THEN [bcs EXCEPT ![t].i = @ - 1] ELSE bcs, j, t - 1)

UsersPop(m, u) ==
    IF u \notin Keys(m.users) THEN m
    ELSE LET j == IndexOf(m.users, u) IN
         [m EXCEPT !.users = RemoveAt(m.users, j),
                   !.bc = Shifted(m.bc, j, NChan + MaxShares + NVids)]

RECURSIVE UsersPopAll(_, _)
UsersPopAll(m, S) ==
    IF S = {} THEN m
    ELSE LET u == CHOOSE x \in S : TRUE IN UsersPopAll(UsersPop(m, u), S \ {u})

\* ------------------------------------------------------------ output
Msg(typ, by, to) ==
    [typ |-> typ, by |-> by, ex |-> 0, sent |-> {to}, missed |-> {},
     res |-> "sent", vid |-> 0, ready |-> 0, total |-> 0, name |-> 0]

Emit(m, rec) == [m EXCEPT !.out = @ \cup {rec}]

\* what a finished (res = "done") or aborted (res = "abort") fan-out did:
\* missed are the channels registered from its start to its end, not
\* excluded, that it never tried to send to
Summary(m, t, res) ==
    LET b == m.bc[t]
        tried == {m.users[i].ch : i \in {j \in DOMAIN m.users : m.users[j].id \in b.failed}}
    IN
    [typ |-> b.typ, by |-> t, ex |-> b.ex, sent |-> b.sent,
     missed |-> (b.aud \cap Audience(m.users, b.ex)) \ (b.sent \cup tried),
     res |-> res, vid |-> b.vid, ready |-> b.ready, total |-> b.total,
     name |-> b.name]

\* websocket.send_*() on a channel: returns normally on an open socket,
\* raises once the server closed it, and either of the two once the peer
\* is gone
SendResults(w) ==
    CASE w = "open" -> {"ok"}
      [] w = "gone" -> {"ok", "fail"}
      [] OTHER -> {"fail"}

\* --------------------------------------------------------- the tasks
\* a send that returned may have suspended its task: the state in which the
\* task is parked at pc label l, if the bound on suspensions allows one more
Parked(m, t, l) ==
    IF m.yields < MaxYield
    THEN {[m EXCEPT !.yields = @ + 1, !.pc[t] = l]}
    ELSE {}

\* the handler's coroutine is over: the connection is closed
EndTask(m, c) ==
    [m EXCEPT !.pc[c] = "done", !.ws[c] = "closed", !.uid[c] = 0,
              !.bc[c] = NoBc, !.loc[c] = NoLoc]

\* a timer or an upload task is over
EndJob(m, t) == [m EXCEPT !.pc[t] = "done", !.bc[t] = NoBc, !.loc[t] = NoLoc]

\* a variant of CommitSole that leaves the barrier pending
CommitSoleLate(m) == [m EXCEPT !.playback_state.playing = TRUE]

\* the commit of the barrier by the sole-participant shortcut (lines 612-614)
CommitSole(m) ==
    [m EXCEPT !.pending_video = 0, !.playback_state.playing = TRUE]

\* the commit of the barrier by readiness (lines 641-644) and by timeout
\* (lines 478-481)
Commit(m) ==
    [m EXCEPT !.pending_video = 0, !.playback_state.playing = TRUE,
              !.playback_state.position = 0]

\* asyncio.create_task(_ready_timeout(room, video_id, 30.0)): the new task
\* sleeps in the first unused timer slot
FreeTimer(m) == CHOOSE k \in Timers : m.pc[k] = "none" /\ \A j \in Timers : j < k => m.pc[j] # "none"

CreateTimer(m, v) ==
    LET k == FreeTimer(m) IN
    [m EXCEPT !.pc[k] = "sleep",
              !.loc[k] = [NoLoc EXCEPT !.vid = v, !.ep = m.nShares]]

\* history: the barrier of video v is committed by readiness while the timers
\* k, k - 1, ... of v still sleep
RECURSIVE Met(_, _, _)
Met(m, v, k) ==
    IF k \notin Timers THEN m
    ELSE Met(IF m.pc[k] = "sleep" /\ m.loc[k].vid = v
             THEN [m EXCEPT !.loc[k].met = TRUE] ELSE m, v, k - 1)

RECURSIVE BcRun(_, _), After(_, _), Raise(_, _), StartBc(_, _, _), Finally(_, _)

\* broadcast(room, message, exclude_id): the call starts with a fresh
\* iterator over room.users and runs to its first suspension
StartBc(m, t, b) ==
    BcRun([m EXCEPT !.bc[t] = [b EXCEPT !.i = 1, !.n = Len(m.users),
                                        !.aud = Audience(m.users, b.ex)]], t)

\* broadcast() from the iterator's next step on: the size check of the dict
\* iterator, the skip of exclude_id, one send per entry, and after the loop
\* the removal of the recipients whose send raised.  Every send that
\* returned may suspend the task.
BcRun(m, t) ==
    LET b == m.bc[t] IN
    IF Len(m.users) # b.n
    THEN Raise(Emit(m, Summary(m, t, "abort")), t)
    ELSE IF b.i > Len(m.users)
    THEN LET m1 == UsersPopAll(m, b.failed) IN
         After(Emit(m1, Summary(m1, t, "done")), t)
    ELSE LET e == m.users[b.i] IN
         IF e.id = b.ex
         THEN BcRun([m EXCEPT !.bc[t].i = @ + 1], t)
         ELSE UNION {
                LET m1 == IF r = "ok"
                          THEN [m EXCEPT !.bc[t].i = @ + 1,
                                         !.bc[t].sent = @ \cup {e.ch}]
                          ELSE [m EXCEPT !.bc[t].i = @ + 1,
                                         !.bc[t].failed = @ \cup {e.id}]
                IN  BcRun(m1, t) \cup Parked(m1, t, "bc")
                : r \in SendResults(m.ws[e.ch]) }

\* the code that follows a broadcast() that returned
After(m, t) ==
    LET b == m.bc[t]
        m0 == [m EXCEPT !.bc[t] = NoBc]
    IN
    CASE b.k = "loop" -> {[m0 EXCEPT !.pc[t] = "loop"]}
      [] b.k = "prepare" ->
            \* play_video, lines 610-622
            IF Len(m0.users) <= 1
            THEN UNION {
                   IF r = "ok"
                   THEN {[Emit(CommitSole(m0), [Msg("all_ready", t, t) EXCEPT !.vid = b.vid])
                            EXCEPT !.pc[t] = "loop"]}
                   ELSE Finally(CommitSole(m0), t)
                   : r \in SendResults(m0.ws[t]) }
            ELSE {[CreateTimer(m0, b.vid) EXCEPT !.pc[t] = "loop"]}
      [] b.k = "progress" ->
            \* ready, lines 639-648: ready_count and total are the locals
            \* computed before the fan-out
            IF b.commit
            THEN StartBc(Met(Commit(m0), b.vid, NChan + MaxShares), t,
                         [NoBc EXCEPT !.typ = "all_ready", !.k = "loop", !.vid = b.vid])
            ELSE {[m0 EXCEPT !.pc[t] = "loop"]}
      [] b.k = "end" -> {EndTask(m0, t)}
      [] OTHER -> {EndJob(m0, t)}

\* an exception raised out of broadcast(): websocket_endpoint catches it
\* (line 722) and runs its finally block, unless it was raised in there;
\* it ends a timer task or an upload request
Raise(m, t) ==
    LET b == m.bc[t]
        m0 == [m EXCEPT !.bc[t] = NoBc]
    IN
    IF t \in Chans
    THEN IF b.k = "end" THEN {EndTask(m0, t)} ELSE Finally(m0, t)
    ELSE {EndJob(m0, t)}

\* websocket_endpoint's finally block, lines 724-739
Finally(m, c) ==
    IF m.uid[c] # 0 /\ m.alive
    THEN LET leaving == UserGet(m.users, m.uid[c]) IN
         StartBc(UsersPop(m, m.uid[c]), c,
                 [NoBc EXCEPT !.typ = "user_left", !.k = "end", !.name = leaving])
    ELSE {EndTask(m, c)}

\* ------------------------------------- session_client.py: SessionClient
\* The client's threads interleave between statements: the UI thread
\* (join_room, disconnect), the threads of the reconnect and ping timers,
\* and one thread per WebSocketApp, whose callbacks all work on the one
\* SessionClient.  A threading.Timer is "armed" until it fires or is
\* cancelled; a Timer whose reference was overwritten can no longer be
\* cancelled (orphans).  The server's answers are inputs.
CChans == 1..MaxOpens

\* SessionClient.__init__, lines 105-133, with the history the claims need
NewClient ==
    [shutting_down |-> FALSE, reconnect_attempts |-> 0, connected |-> FALSE,
     room_code |-> FALSE,       \* _room_code is set
     user_id |-> 0,             \* _user_id; the server issues 1, 2, ...
     host_id |-> 0,             \* _host_id
     creating |-> FALSE,        \* the session was started by create_room
     made |-> 0,                \* history: the id create_room returned
     ws |-> 0,                  \* _ws: the channel it refers to
     wst |-> [k \in CChans |-> "none"], \* "none", "opening", "open", "closing", "closed"
     wsroom |-> [k \in CChans |-> FALSE], \* the channel's URL names the Room
     auth |-> [k \in CChans |-> 0],     \* the user_id sent in auth on the channel
     reconnect_timer |-> "none", ping_timer |-> "none",
     rorph |-> 0, porph |-> 0,  \* armed timers no field refers to
     rchk |-> 0,                \* _reconnect_thread instances before their check
     rpost |-> 0,               \* _reconnect_thread instances waiting for the answer
     jpost |-> 0,               \* _join_room_thread instances waiting for the answer
     pinging |-> 0,             \* _loop instances past their check
     dpc |-> 0,                 \* the statement disconnect() is at, 0 outside
     issued |-> 0, sessions |-> 0,
     delays |-> <<>>,           \* history: delays of the timers since attempts was 0
     surfaced |-> "none",       \* history: the last disconnected signal
     quiet |-> FALSE,           \* history: disconnect() returned, no join since
     late |-> {},               \* history: what the client did while quiet
     kicked |-> FALSE,          \* history: kicked was handled, no join since
     after |-> {}]              \* history: what the client did since it was kicked

RECURSIVE Pow2(_)
Pow2(n) == IF n = 0 THEN 1 ELSE 2 * Pow2(n - 1)

\* a variant of Delay without the cap
DelayUncapped(n) == Pow2(n)

\* line 282: min(2 ** attempts, 30)
Delay(n) == IF Pow2(n) < 30 THEN Pow2(n) ELSE 30

\* history: an observable act of the client
Did(c, what) ==
    LET c1 == IF c.quiet THEN [c EXCEPT !.late = @ \cup {what}] ELSE c IN
    IF c.kicked THEN [c1 EXCEPT !.after = @ \cup {what}] ELSE c1

\* threading.Timer(...) assigned to a field that may still refer to an
\* armed timer
Orphans(field) == IF field = "armed" THEN 1 ELSE 0

\* _attempt_reconnect, lines 279-289
AttemptReconnect(c) ==
    LET n == c.reconnect_attempts + 1 IN
    [c EXCEPT !.reconnect_attempts = n, !.delays = Append(@, Delay(n)),
              !.rorph = @ + Orphans(c.reconnect_timer),
              !.reconnect_timer = "armed"]

\* lines 315-318 and 321-324: retry or give up
RetryOrFail(c) ==
    IF c.reconnect_attempts < max_reconnect_attempts
    THEN AttemptReconnect(c)
    ELSE [c EXCEPT !.surfaced = "failed"]

\* stop_ping_loop, lines 269-273
StopPing(c) == [c EXCEPT !.ping_timer = "none"]

\* _connect_ws, lines 448-466: a new WebSocketApp and its thread
FreeChan(c) == CHOOSE k \in CChans : c.wst[k] = "none" /\ \A j \in CChans : j < k => c.wst[j] # "none"

ConnectWs(c) ==
    LET k == FreeChan(c) IN
    Did([c EXCEPT !.ws = k, !.wst[k] = "opening", !.wsroom[k] = c.room_code], "open")

CanOpen(c) == \E k \in CChans : c.wst[k] = "none"

\* the server's answer to a join request: 200 carries a fresh user_id;
\* "other" is any other status, or the exception of a request that failed
Answers == {"200", "404", "other"}

Joined(c) ==
    [c EXCEPT !.issued = @ + 1, !.user_id = c.issued + 1]

\* the host_id the server reports for a Room another client has created
Stranger == 0 - 1

\* is_host, lines 155-157
IsHost(c) == c.user_id = c.host_id

\* create_room, lines 179-188: the UI thread starts a new session in a Room
\* of its own
UserCreateRuns ==
    IF cl.dpc = 0 /\ cl.sessions < MaxSessions
    THEN {[Cur EXCEPT !.cl = [cl EXCEPT !.shutting_down = FALSE,
                                         !.reconnect_attempts = 0,
                                         !.delays = <<>>, !.quiet = FALSE,
                                         !.late = {}, !.surfaced = "none",
                                         !.kicked = FALSE, !.after = {},
                                         !.creating = TRUE, !.made = 0,
                                         !.jpost = @ + 1, !.sessions = @ + 1]]}
    ELSE {}

\* join_room, lines 190-199: the UI thread starts a new session
UserJoinRuns ==
    IF cl.dpc = 0 /\ cl.sessions < MaxSessions
    THEN {[Cur EXCEPT !.cl = [cl EXCEPT !.shutting_down = FALSE,
                                         !.reconnect_attempts = 0,
                                         !.delays = <<>>, !.quiet = FALSE,
                                         !.late = {}, !.surfaced = "none",
                                         !.kicked = FALSE, !.after = {},
                                         !.creating = FALSE, !.made = 0,
                                         !.jpost = @ + 1, !.sessions = @ + 1]]}
    ELSE {}

\* data["host_id"] of a 200 answer: create_room reports the id it returns
\* (server.py lines 256-262), join_room the id of the Room's creator (line 294)
Hosted(c) ==
    IF c.creating /\ c.made = 0
    THEN [c EXCEPT !.host_id = c.user_id, !.made = c.user_id]
    ELSE [c EXCEPT !.host_id = IF c.creating THEN c.made ELSE Stranger]

\* _join_room_thread, lines 400-443, and _create_room_thread, lines 368-398:
\* the answer to the request
JoinAnswerRuns(a) ==
    IF cl.jpost = 0 \/ (a = "200" /\ ~CanOpen(cl)) THEN {}
    ELSE LET c == [cl EXCEPT !.jpost = @ - 1] IN
         IF a = "200"
         THEN {[Cur EXCEPT !.cl = ConnectWs([Hosted(Joined(c)) EXCEPT !.room_code = TRUE])]}
         ELSE {[Cur EXCEPT !.cl = c]}

\* disconnect(), lines 201-217, one statement per step
DisconnectStepRuns ==
    LET c == cl
        at(n) == [c EXCEPT !.dpc = n]
    IN
    CASE c.dpc = 0 ->
            \* the panel that calls disconnect() has dropped its reference
            \* to a client that was kicked (random_clip_player.py line 1638)
            IF c.kicked THEN {}
            ELSE {[Cur EXCEPT !.cl = [c EXCEPT !.dpc = 1, !.shutting_down = TRUE]]}
      [] c.dpc = 1 ->
            {[Cur EXCEPT !.cl = [c EXCEPT !.dpc = 2,
                                          !.reconnect_attempts = max_reconnect_attempts]]}
      [] c.dpc = 2 -> {[Cur EXCEPT !.cl = [c EXCEPT !.dpc = 3, !.reconnect_timer = "none"]]}
      [] c.dpc = 3 -> {[Cur EXCEPT !.cl = [StopPing(c) EXCEPT !.dpc = 4]]}
      [] c.dpc = 4 ->
            \* self._ws.close(): a channel that is still connecting either
            \* gives up or completes its connection first
            IF c.ws # 0 /\ c.wst[c.ws] = "open"
            THEN {[Cur EXCEPT !.cl = [c EXCEPT !.dpc = 5, !.wst[c.ws] = "closing"]]}
            ELSE IF c.ws # 0 /\ c.wst[c.ws] = "opening"
            THEN {[Cur EXCEPT !.cl = [c EXCEPT !.dpc = 5, !.wst[c.ws] = "closing"]],
                  [Cur EXCEPT !.cl = at(5)]}
            ELSE {[Cur EXCEPT !.cl = at(5)]}
      [] c.dpc = 5 -> {[Cur EXCEPT !.cl = [c EXCEPT !.dpc = 6, !.connected = FALSE]]}
      [] c.dpc = 6 ->
            {[Cur EXCEPT !.cl = [c EXCEPT !.dpc = 0, !.room_code = FALSE,
                                          !.user_id = 0, !.quiet = TRUE]]}
      [] OTHER -> {}

\* a variant of ReconnectCheckRuns that retries without looking at
\* _shutting_down
ReconnectCheckAlways ==
    IF cl.rchk > 0
    THEN {[Cur EXCEPT !.cl = Did([cl EXCEPT !.rchk = @ - 1, !.rpost = @ + 1], "post")]}
    ELSE {}

\* the reconnect timer fires: its thread starts _reconnect_thread
ReconnectFireRuns ==
    (IF cl.reconnect_timer = "armed"
     THEN {[Cur EXCEPT !.cl = [cl EXCEPT !.reconnect_timer = "fired", !.rchk = @ + 1]]}
     ELSE {})
    \cup
    (IF cl.rorph > 0
     THEN {[Cur EXCEPT !.cl = [cl EXCEPT !.rorph = @ - 1, !.rchk = @ + 1]]}
     ELSE {})

\* _reconnect_thread, lines 291-299: the check of _shutting_down, then the
\* join request is sent
ReconnectCheckRuns ==
    IF cl.rchk > 0
    THEN IF cl.shutting_down
         THEN {[Cur EXCEPT !.cl = [cl EXCEPT !.rchk = @ - 1]]}
         ELSE {[Cur EXCEPT !.cl = Did([cl EXCEPT !.rchk = @ - 1, !.rpost = @ + 1], "post")]}
    ELSE {}

\* _reconnect_thread, lines 300-324: the answer to the join request
ReconnectAnswerRuns(a) ==
    IF cl.rpost = 0 \/ (a = "200" /\ ~CanOpen(cl)) THEN {}
    ELSE LET c == [cl EXCEPT !.rpost = @ - 1] IN
         CASE a = "200" ->
                {[Cur EXCEPT !.cl = ConnectWs([Hosted(Joined(c))
                                                 EXCEPT !.reconnect_attempts = 0,
                                                        !.delays = <<>>])]}
           [] a = "404" -> {[Cur EXCEPT !.cl = [c EXCEPT !.surfaced = "gone"]]}
           [] OTHER -> {[Cur EXCEPT !.cl = RetryOrFail(c)]}

\* _loop of start_ping_loop, lines 261-266, up to send_ping
PingCheck(c) ==
    IF c.connected /\ ~c.shutting_down
    THEN [c EXCEPT !.pinging = @ + 1]
    ELSE c

\* _on_ws_open, lines 468-477
WsOpenRuns(k) ==
    IF cl.wst[k] = "opening"
    THEN {[Cur EXCEPT !.cl = PingCheck(StopPing(
              [cl EXCEPT !.wst[k] = "open", !.auth[k] = cl.user_id,
                         !.connected = TRUE]))]}
    ELSE {}

\* the channel ends: the server or the network closed it, the connection
\* could not be made, or close() was called; _on_ws_close, lines 612-621
WsCloseRuns(k) ==
    IF cl.wst[k] \in {"opening", "open", "closing"}
    THEN LET c == StopPing([cl EXCEPT !.wst[k] = "closed", !.connected = FALSE]) IN
         IF c.shutting_down THEN {[Cur EXCEPT !.cl = c]}
         ELSE IF c.reconnect_attempts < max_reconnect_attempts /\ c.room_code
         THEN {[Cur EXCEPT !.cl = AttemptReconnect(c)]}
         ELSE {[Cur EXCEPT !.cl = [c EXCEPT !.surfaced = "closed"]]}
    ELSE {}

\* _on_ws_message, lines 512-515: kicked arrives on channel k; the panel's
\* slot _on_kicked (random_clip_player.py lines 1577-1580, 1634-1645) shows
\* the disconnected state and drops its reference to the client
KickedRuns(k) ==
    IF cl.wst[k] = "open" /\ ~cl.kicked
    THEN {[Cur EXCEPT !.cl = [cl EXCEPT !.connected = FALSE, !.kicked = TRUE],
                      !.pl.session_shared_pool = FALSE,
                      !.pl.session_uploading = FALSE]}
    ELSE {}

\* _send, lines 623-629: the message goes out on _ws if _connected
CanSend(c) == c.ws # 0 /\ c.connected /\ c.wst[c.ws] = "open"

\* _loop, lines 263-266: send_ping and the next timer
PingSendRuns ==
    IF cl.pinging > 0
    THEN {[Cur EXCEPT !.cl =
             [(IF CanSend(cl) THEN Did(cl, "ping") ELSE cl)
                EXCEPT !.pinging = @ - 1, !.porph = @ + Orphans(cl.ping_timer),
                       !.ping_timer = "armed"]]}
    ELSE {}

\* a ping timer fires and runs _loop
PingFireRuns ==
    (IF cl.ping_timer = "armed"
     THEN {[Cur EXCEPT !.cl = PingCheck([cl EXCEPT !.ping_timer = "fired"])]}
     ELSE {})
    \cup
    (IF cl.porph > 0
     THEN {[Cur EXCEPT !.cl = PingCheck([cl EXCEPT !.porph = @ - 1])]}
     ELSE {})

UserJoin == \E m \in UserJoinRuns : Set(m)
JoinAnswer(a) == \E m \in JoinAnswerRuns(a) : Set(m)
DisconnectStep == \E m \in DisconnectStepRuns : Set(m)
ReconnectFire == \E m \in ReconnectFireRuns : Set(m)
ReconnectCheck == \E m \in ReconnectCheckRuns : Set(m)
ReconnectAnswer(a) == \E m \in ReconnectAnswerRuns(a) : Set(m)
WsOpen(k) == \E m \in WsOpenRuns(k) : Set(m)
WsClose(k) == \E m \in WsCloseRuns(k) : Set(m)
PingSend == \E m \in PingSendRuns : Set(m)
PingFire == \E m \in PingFireRuns : Set(m)

Kicked(k) == \E m \in KickedRuns(k) : Set(m)
UserCreate == \E m \in UserCreateRuns : Set(m)

NextClient ==
    \/ UserJoin
    \/ \E a \in Answers : JoinAnswer(a)
    \/ DisconnectStep
    \/ ReconnectFire
    \/ ReconnectCheck
    \/ \E a \in Answers : ReconnectAnswer(a)
    \/ \E k \in CChans : WsOpen(k)
    \/ \E k \in CChans : WsClose(k)
    \/ PingSend
    \/ PingFire

\* ------------------------------------------------------------- player
\* random_clip_player.py: the VideoPlayer and the SessionPanel of the one
\* client.  Slots run on the GUI thread, one at a time and to their end;
\* signals emitted by the client's threads are delivered in the order of
\* their emission, so a step is the emission together with its slot.
\* QTimer.singleShot callbacks are pending until they fire.  A media id of 0
\* is no session video (nothing, or a clip outside the session).
MaxUploads == 1       \* upload threads at a time
MaxTimers == 2        \* singleShot callbacks pending at a time

NoSync == [position |-> 0, speed |-> 1, playing |-> FALSE]
SyncStates == [position : Positions, speed : Speeds, playing : BOOLEAN]
NoShot == [f |-> "none", vid |-> 0, st |-> NoSync]

\* VideoPlayer.__init__ (lines 1840-1850), SpeedButton.__init__, the
\* SessionPanel's pending ids, with the history the claims need
NewPlayer ==
    [ignore_remote |-> FALSE,
     playing |-> FALSE, position |-> 0, rate |-> 1, media |-> 0, \* vlc.MediaPlayer
     current_speed |-> 1,                 \* SpeedButton.current_speed
     session_uploading |-> FALSE, session_shared_pool |-> FALSE,
     pending_sync_video_id |-> 0, pending_sync_state |-> NoSync,
     pending_prepare_video_id |-> 0,
     local |-> {},              \* the _videos entries with a local_path
     up |-> 0,                  \* _upload_thread instances waiting for the answer
     down |-> {},               \* _download_thread instances, by video id
     timers |-> {},             \* pending singleShot callbacks
     stated |-> {},             \* the channels room_state has arrived on
     sharing |-> {},            \* history: play_video sent, all_ready not yet handled
     slot |-> "none",           \* history: the last slot that ran
     sent |-> <<>>,             \* history: what that slot sent
     bare |-> FALSE,            \* history: it called the controller with ignore_remote down
     fired |-> NoShot]          \* history: the last callback that fired

Slot(m, name) == [m EXCEPT !.pl.slot = name, !.pl.sent = <<>>, !.pl.bare = FALSE]

\* a call of the media controller: set_position, set_rate, play, pause, set_media
Ctl(m, field, v) ==
    [m EXCEPT !.pl[field] = v, !.pl.bare = @ \/ ~m.pl.ignore_remote]

Flag(m, b) == [m EXCEPT !.pl.ignore_remote = b]

\* SessionClient._send, lines 623-629, of a message the panel or a thread sends
ClientSend(m, typ, v) ==
    IF CanSend(m.cl)
    THEN [m EXCEPT !.pl.sent = Append(@, [typ |-> typ, vid |-> v])]
    ELSE m

\* _session_send_play, _pause, _seek, _speed, lines 2953-2985
SessionSend(m, typ) ==
    IF m.pl.ignore_remote \/ ~m.cl.connected THEN m ELSE ClientSend(m, typ, 0)

\* vlc.MediaPlayer.pause() toggles between playing and paused
VlcPause(m) == Ctl(m, "playing", ~m.pl.playing)

\* _apply_current_speed, lines 2662-2665
ApplyCurrentSpeed(m) == Ctl(m, "rate", m.pl.current_speed)

\* _play_video, lines 2586-2616
PlayVideoLocal(m, v) ==
    ApplyCurrentSpeed(Ctl(Ctl(Ctl(m, "media", v), "position", 0), "playing", TRUE))

\* QTimer.singleShot(ms, f)
SingleShot(m, f, v, st) ==
    [m EXCEPT !.pl.timers = @ \cup {[f |-> f, vid |-> v, st |-> st]}]

\* _toggle_play_pause, lines 2618-2639 (the media has not ended)
TogglePlayPauseRuns ==
    LET m == Slot(Cur, "toggle") IN
    IF pl.playing
    THEN {SessionSend(VlcPause(m), "pause")}
    ELSE {SessionSend(ApplyCurrentSpeed(Ctl(m, "playing", TRUE)), "play")}

\* _set_position, lines 2719-2722: the slider was moved or released
SetPositionRuns(x) ==
    {SessionSend(Ctl(Slot(Cur, "slider"), "position", x), "seek")}

\* SpeedButton.wheelEvent, lines 816-834, and _set_playback_speed, lines 2655-2660
WheelRuns(s) ==
    {SessionSend(Ctl([Slot(Cur, "wheel") EXCEPT !.pl.current_speed = s], "rate", s),
                 "speed")}

\* the media plays on: its position leaves the start
PlayingRuns ==
    IF pl.playing /\ pl.position = 0 THEN {[Cur EXCEPT !.pl.position = 1]} ELSE {}

\* _on_remote_play, lines 2989-3002
OnRemotePlay(m, x) ==
    LET a == Ctl(Flag(m, TRUE), "position", x) IN
    Flag(IF a.pl.playing THEN a ELSE ApplyCurrentSpeed(Ctl(a, "playing", TRUE)), FALSE)

\* _on_remote_pause, lines 3004-3013
OnRemotePause(m, x) ==
    LET a == Flag(m, TRUE) IN
    Flag(Ctl(IF a.pl.playing THEN VlcPause(a) ELSE a, "position", x), FALSE)

\* a variant of OnRemoteSeek that applies the event as the slider does
OnRemoteSeekAsLocal(m, x) == SessionSend(Ctl(m, "position", x), "seek")

\* _on_remote_seek, lines 3015-3021
OnRemoteSeek(m, x) == Flag(Ctl(Flag(m, TRUE), "position", x), FALSE)

\* _on_remote_speed, lines 3023-3030, with SpeedButton.set_speed, lines 845-849
OnRemoteSpeed(m, s) ==
    Flag([Ctl(Flag(m, TRUE), "rate", s) EXCEPT !.pl.current_speed = s], FALSE)

\* _on_all_ready, lines 1746-1760
OnAllReady(m, v) ==
    LET a == Flag([m EXCEPT !.pl.session_uploading = FALSE,
                            !.pl.sharing = @ \ {v}], TRUE) IN
    Flag(ApplyCurrentSpeed(Ctl(Ctl(a, "position", 0), "playing", TRUE)), FALSE)

\* _on_ws_message runs while a channel is open
ClientReceiving == \E k \in CChans : cl.wst[k] = "open"

\* _on_ws_message, lines 522-544 and 565-568, and the slot of the signal
RemotePlayRuns(x) ==
    IF ClientReceiving THEN {OnRemotePlay(Slot(Cur, "remote_play"), x)} ELSE {}
RemotePauseRuns(x) ==
    IF ClientReceiving THEN {OnRemotePause(Slot(Cur, "remote_pause"), x)} ELSE {}
RemoteSeekRuns(x) ==
    IF ClientReceiving THEN {OnRemoteSeek(Slot(Cur, "remote_seek"), x)} ELSE {}
RemoteSpeedRuns(s) ==
    IF ClientReceiving THEN {OnRemoteSpeed(Slot(Cur, "remote_speed"), s)} ELSE {}
AllReadyRuns(v) ==
    IF ClientReceiving THEN {OnAllReady(Slot(Cur, "all_ready"), v)} ELSE {}

\* _on_shared_pool_toggled, lines 1780-1786: the user ticks the box
SharedPoolToggledRuns(e) ==
    {[ClientSend(Slot(Cur, "pool_toggled"), "set_shared_pool", 0)
        EXCEPT !.pl.session_shared_pool = e]}

\* shared_pool_changed, lines 596-600, and _on_shared_pool_changed, lines 1788-1795
OnSharedPoolChanged(m, e) ==
    [Slot(m, "pool_changed") EXCEPT !.pl.session_shared_pool = e]

SharedPoolChangedRuns(e) ==
    IF ClientReceiving THEN {OnSharedPoolChanged(Cur, e)} ELSE {}

\* _session_auto_share, lines 2907-2917, with upload_and_play (the clip exists)
SessionAutoShare(m) ==
    IF m.cl.connected
    THEN [m EXCEPT !.pl.session_uploading = TRUE, !.pl.up = @ + 1]
    ELSE m

\* play_random_clip, lines 2419-2463
PlayRandomClipRuns ==
    LET m == Slot(Cur, "random_clip") IN
    IF pl.session_uploading THEN {m}
    ELSE IF cl.connected /\ pl.session_shared_pool
    THEN {ClientSend(m, "request_random", 0)}
    ELSE IF cl.connected
    THEN IF pl.up < MaxUploads THEN {SessionAutoShare(m)} ELSE {}
    ELSE {PlayVideoLocal(m, 0)}

\* provide_random_clip, lines 592-594, and _on_random_clip_requested, lines 2919-2936
RandomClipRequestedRuns ==
    IF ClientReceiving /\ pl.up < MaxUploads
    THEN {SessionAutoShare(Slot(Cur, "clip_requested"))}
    ELSE {}

\* _play_session_video, lines 3045-3052, and _load_session_video, lines 3054-3061
LoadSessionVideo(m, v) == Flag(PlayVideoLocal(Flag(m, TRUE), v), FALSE)

\* _on_video_ready, lines 1663-1717
OnVideoReady(m, v) ==
    IF m.pl.pending_sync_video_id = v
    THEN [SingleShot(LoadSessionVideo(m, v), "apply_sync", v, m.pl.pending_sync_state)
            EXCEPT !.pl.pending_sync_video_id = 0, !.pl.pending_sync_state = NoSync]
    ELSE IF m.pl.pending_prepare_video_id = v
    THEN [SingleShot(LoadSessionVideo(m, v), "pause_and_report_ready", v, NoSync)
            EXCEPT !.pl.pending_prepare_video_id = 0]
    ELSE IF m.cl.connected
    THEN SingleShot(LoadSessionVideo(m, v), "host_wait_for_ready", v, NoSync)
    ELSE LoadSessionVideo(m, v)

\* _on_error, lines 1627-1632
OnError(m) == [m EXCEPT !.pl.session_uploading = FALSE]

\* _upload_thread, lines 685-701: the answer to the upload; the server
\* issues an id the client has not seen
UploadAnswerRuns(a, v) ==
    IF pl.up = 0 \/ v \in pl.local \/ Cardinality(pl.timers) >= MaxTimers THEN {}
    ELSE LET m == [Cur EXCEPT !.pl.up = @ - 1] IN
         IF a = "200"
         THEN {OnVideoReady(Slot(
                  [m EXCEPT !.pl.local = @ \cup {v},
                            !.pl.sharing = IF CanSend(m.cl) THEN @ \cup {v} ELSE @],
                  "video_ready"), v)}
         ELSE {OnError(Slot(m, "error"))}

\* download_video, lines 338-344
DownloadVideo(m, v) == [m EXCEPT !.pl.down = @ \cup {v}]

\* prepare_video, lines 556-563, and _on_prepare_video, lines 1739-1744
PrepareVideoRuns(v) ==
    IF ClientReceiving
    THEN {DownloadVideo([Slot(Cur, "prepare_video")
                           EXCEPT !.pl.pending_prepare_video_id = v], v)}
    ELSE {}

\* room_state, which the server sends once on a channel, lines 485-498, and
\* _on_sync_to_video, lines 1552-1557; v is 0 if the Room has no current video
RoomStateRuns(k, v, st) ==
    IF cl.wst[k] = "open" /\ k \notin pl.stated
    THEN LET m == [Slot(Cur, "room_joined") EXCEPT !.pl.stated = @ \cup {k}] IN
         IF v = 0 THEN {m}
         ELSE {DownloadVideo([m EXCEPT !.pl.slot = "sync_to_video",
                                       !.pl.pending_sync_video_id = v,
                                       !.pl.pending_sync_state = st], v)}
    ELSE {}

\* _download_thread, lines 703-741: the copy is there or the answer comes
DownloadRuns(v, a) ==
    IF v \notin pl.down \/ Cardinality(pl.timers) >= MaxTimers THEN {}
    ELSE LET m == [Cur EXCEPT !.pl.down = @ \ {v}] IN
         IF v \in pl.local \/ a = "200"
         THEN {OnVideoReady(Slot([m EXCEPT !.pl.local = @ \cup {v}], "video_ready"), v)}
         ELSE {OnError(Slot(m, "error"))}

\* _apply_sync, lines 1676-1689
ApplySync(m, st) ==
    LET a == Flag(m, TRUE)
        b == IF st.position # 0 THEN Ctl(a, "position", st.position) ELSE a
        c == IF st.speed # 1
             THEN [Ctl(b, "rate", st.speed) EXCEPT !.pl.current_speed = st.speed]
             ELSE b
    IN Flag(IF st.playing THEN c ELSE VlcPause(c), FALSE)

\* _host_wait_for_ready, lines 1719-1726
HostWaitForReady(m) == Flag(VlcPause(Flag(m, TRUE)), FALSE)

\* _pause_and_report_ready, lines 1728-1737
PauseAndReportReady(m, v) ==
    LET a == Flag(VlcPause(Flag(m, TRUE)), FALSE) IN
    IF a.cl.connected THEN ClientSend(a, "ready", v) ELSE a

\* a singleShot callback fires
ShotRuns(t) ==
    IF t \notin pl.timers THEN {}
    ELSE LET m == [Slot(Cur, t.f) EXCEPT !.pl.timers = @ \ {t}, !.pl.fired = t] IN
         CASE t.f = "apply_sync" -> {ApplySync(m, t.st)}
           [] t.f = "host_wait_for_ready" -> {HostWaitForReady(m)}
           [] OTHER -> {PauseAndReportReady(m, t.vid)}

Shots == [f : {"apply_sync", "host_wait_for_ready", "pause_and_report_ready"},
          vid : Vids, st : SyncStates]

TogglePlayPause == \E m \in TogglePlayPauseRuns : Set(m)
SetPosition(x) == \E m \in SetPositionRuns(x) : Set(m)
Wheel(s) == \E m \in WheelRuns(s) : Set(m)
Playing == \E m \in PlayingRuns : Set(m)
RemotePlay(x) == \E m \in RemotePlayRuns(x) : Set(m)
RemotePause(x) == \E m \in RemotePauseRuns(x) : Set(m)
RemoteSeek(x) == \E m \in RemoteSeekRuns(x) : Set(m)
RemoteSpeed(s) == \E m \in RemoteSpeedRuns(s) : Set(m)
AllReady(v) == \E m \in AllReadyRuns(v) : Set(m)
SharedPoolToggled(e) == \E m \in SharedPoolToggledRuns(e) : Set(m)
SharedPoolChanged(e) == \E m \in SharedPoolChangedRuns(e) : Set(m)
PlayRandomClip == \E m \in PlayRandomClipRuns : Set(m)
RandomClipRequested == \E m \in RandomClipRequestedRuns : Set(m)
UploadAnswer(a, v) == \E m \in UploadAnswerRuns(a, v) : Set(m)
PrepareVideo(v) == \E m \in PrepareVideoRuns(v) : Set(m)
RoomState(k, v, st) == \E m \in RoomStateRuns(k, v, st) : Set(m)
Download(v, a) == \E m \in DownloadRuns(v, a) : Set(m)
Shot(t) == \E m \in ShotRuns(t) : Set(m)

NextPlayer ==
    \/ TogglePlayPause
    \/ \E x \in Positions : SetPosition(x)
    \/ \E s \in Speeds : Wheel(s)
    \/ Playing
    \/ \E x \in Positions : RemotePlay(x)
    \/ \E x \in Positions : RemotePause(x)
    \/ \E x \in Positions : RemoteSeek(x)
    \/ \E s \in Speeds : RemoteSpeed(s)
    \/ \E v \in Vids : AllReady(v)
    \/ \E e \in BOOLEAN : SharedPoolToggled(e)
    \/ \E e \in BOOLEAN : SharedPoolChanged(e)
    \/ PlayRandomClip
    \/ RandomClipRequested
    \/ \E a \in Answers, v \in Vids : UploadAnswer(a, v)
    \/ \E v \in Vids : PrepareVideo(v)
    \/ \E k \in CChans, v \in {0} \cup Vids, st \in SyncStates : RoomState(k, v, st)
    \/ \E v \in Vids, a \in Answers : Download(v, a)
    \/ \E t \in Shots : Shot(t)

\* ------------------------------------------------------------- Init
\* the Room right after create_room: no channel is connected yet
Init ==
    /\ users = <<>>
    /\ current_video = 0
    /\ videos = {}
    /\ shared_pool = FALSE
    /\ pending_video = 0
    /\ ready_users = {}
    /\ playback_state = [playing |-> FALSE, position |-> 0, speed |-> 1]
    /\ ws = [c \in Chans |-> "closed"]
    /\ pc = [t \in Tasks |-> "none"]
    /\ uid = [c \in Chans |-> 0]
    /\ bc = [t \in Tasks |-> NoBc]
    /\ loc = [t \in Tasks |-> NoLoc]
    /\ yields = 0
    /\ nShares = 0
    /\ present = {}
    /\ alive = TRUE
    /\ expired = FALSE
    /\ disk = [dir |-> FALSE, files |-> {}]
    /\ vsize = [v \in Vids |-> 0]
    /\ sweep = [pc |-> "idle", todo |-> <<>>]
    /\ clock = 0
    /\ join_attempts = <<>>
    /\ joining = 0
    /\ admitted = <<>>
    /\ issued = {host_id}
    /\ cl = NewClient
    /\ pl = NewPlayer

\* ------------------------------ websocket_endpoint: the message loop
\* a variant of JoinedBc that excludes nobody
JoinedBcAll(u) == [NoBc EXCEPT !.typ = "user_joined", !.k = "loop"]

\* broadcast(room, {"type": "user_joined", ...}, exclude_id=user_id), lines 536-541
JoinedBc(u) == [NoBc EXCEPT !.typ = "user_joined", !.ex = u, !.k = "loop"]

\* the registration of the user (lines 509-541)
Register(m, c, u) ==
    LET m1 == UsersPut([m EXCEPT !.uid[c] = u, !.expired = FALSE], u, c)
        m2 == Emit(m1, Msg("room_state", c, c))
    IN  StartBc(m2, c, [JoinedBc(u) EXCEPT !.name = c]) \cup Parked(m2, c, "rs")

PlaybackBc(typ, u) == [NoBc EXCEPT !.typ = typ, !.ex = u, !.k = "loop"]

\* lines 551-560
OnPlay(m, c, p) ==
    StartBc([m EXCEPT !.playback_state.playing = TRUE,
                      !.playback_state.position = p],
            c, PlaybackBc("play", m.uid[c]))

\* lines 562-571
OnPause(m, c, p) ==
    StartBc([m EXCEPT !.playback_state.playing = FALSE,
                      !.playback_state.position = p],
            c, PlaybackBc("pause", m.uid[c]))

\* lines 573-581
OnSeek(m, c, p) ==
    StartBc([m EXCEPT !.playback_state.position = p], c, PlaybackBc("seek", m.uid[c]))

\* lines 583-590
OnSpeed(m, c, sp) ==
    StartBc([m EXCEPT !.playback_state.speed = sp], c, PlaybackBc("speed", m.uid[c]))

\* lines 592-609; the rest of the handler is After's "prepare".  The history
\* variable present records who was in the Room at this play_video.
OnPlayVideo(m, c, v) ==
    IF v \in m.videos
    THEN StartBc([m EXCEPT !.current_video = v,
                           !.playback_state.playing = FALSE,
                           !.playback_state.position = 0,
                           !.pending_video = v,
                           !.ready_users = {m.uid[c]},
                           !.nShares = @ + 1,
                           !.present = Keys(m.users)],
                 c, [NoBc EXCEPT !.typ = "prepare_video", !.ex = m.uid[c],
                                 !.k = "prepare", !.vid = v])
    ELSE {m}

\* line 630
ReadyCount(m) == Cardinality(m.ready_users \cap Keys(m.users))

\* lines 624-638; the rest of the handler is After's "progress"
OnReady(m, c, v) ==
    IF m.pending_video # 0 /\ v = m.pending_video
    THEN LET m1 == [m EXCEPT !.ready_users = @ \cup {m.uid[c]}]
             total == Len(m1.users)
             ready_count == ReadyCount(m1)
         IN  StartBc(m1, c, [NoBc EXCEPT !.typ = "ready_progress", !.k = "progress",
                                         !.vid = v, !.ready = ready_count,
                                         !.total = total,
                                         !.commit = (ready_count >= total),
                                         !.ep = m.nShares])
    ELSE {m}

\* lines 671-679
KickRest(m, c, target, name) ==
    StartBc(UsersPop(m, target), c,
            [NoBc EXCEPT !.typ = "user_kicked", !.k = "loop", !.name = name])

\* a variant of OnKick without the host check
OnKickAnyone(m, c, target) ==
    KickRest(m, c, target, UserGet(m.users, target))

\* lines 651-670: the send of kicked and the close of the target's socket
\* are inside a try whose except passes
OnKick(m, c, target) ==
    IF m.uid[c] # host_id
    THEN {Emit(m, Msg("error_kick", c, c))}
    ELSE IF target = 0 \/ target = m.uid[c]
    THEN {m}
    ELSE LET tch == UserGet(m.users, target) IN
         IF tch = 0 THEN {m}
         ELSE UNION {
                LET m1 == IF r = "ok"
                          THEN [Emit(m, Msg("kicked", c, tch)) EXCEPT !.ws[tch] = "shut"]
                          ELSE m
                IN  KickRest(m1, c, target, tch)
                    \cup Parked([m1 EXCEPT !.loc[c].target = target,
                                           !.loc[c].name = tch], c, "kick")
                : r \in SendResults(m.ws[tch]) }

\* lines 681-692
OnSetSharedPool(m, c, e) ==
    IF m.uid[c] # host_id
    THEN {Emit(m, Msg("error_pool", c, c))}
    ELSE StartBc([m EXCEPT !.shared_pool = e], c,
                 [NoBc EXCEPT !.typ = "shared_pool_changed", !.k = "loop"])

\* lines 694-713: the send to the chosen user is inside a try whose except
\* passes
OnRequestRandom(m, c) ==
    IF m.shared_pool /\ Len(m.users) > 0
    THEN UNION {
           {IF r = "ok" THEN Emit(m, Msg("provide_random_clip", c, m.users[i].ch)) ELSE m
              : r \in SendResults(m.ws[m.users[i].ch])}
           : i \in DOMAIN m.users }
    ELSE {Emit(m, Msg("provide_random_clip", c, c))}

\* ----------------------------------------------------------- the steps
\* Every step of the program is one task running from where it is suspended
\* to its next suspension.  XRuns(...) is the set of results the step X can
\* have in the current state (empty when X cannot be taken), each with the
\* output of the step in its field out; the action X takes one of them.

\* A connection is accepted (lines 491-499) and its first message arrives, or
\* the deadline passes, in one step: nothing of the Room is read or written
\* in between.  Each connection is a new channel, the lowest unused one.
Connecting(c) ==
    /\ pc[c] = "none" /\ ws[c] = "closed"
    /\ \A d \in Chans : d < c => pc[d] # "none"

\* the Room is found (lines 493, 498)
Accepting(c) == Connecting(c) /\ alive

\* Room.touch(), line 549: every message received in the loop
Touched == [Cur EXCEPT !.expired = FALSE]

\* the Room is not found (lines 493-496)
RoomMissingRuns(c) ==
    IF Connecting(c) /\ ~alive
    THEN {EndTask(Emit(Cur, Msg("error_room", c, c)), c)}
    ELSE {}

\* a message arrives on the channel (line 547)
Receiving(c) == pc[c] = "loop" /\ ws[c] = "open"

\* the first message is not auth, or carries no user_id (lines 504-515)
AuthRefusedRuns(c) ==
    IF Accepting(c) THEN {EndTask(Emit(Cur, Msg("error_auth", c, c)), c)} ELSE {}

\* no first message within the deadline (lines 503, 720-721)
AuthTimeoutRuns(c) == IF Accepting(c) THEN {EndTask(Cur, c)} ELSE {}

AuthRuns(c, u) ==
    IF Accepting(c) THEN Register([Cur EXCEPT !.ws[c] = "open"], c, u) ELSE {}

PlayRuns(c, p) == IF Receiving(c) THEN OnPlay(Touched, c, p) ELSE {}
PauseRuns(c, p) == IF Receiving(c) THEN OnPause(Touched, c, p) ELSE {}
SeekRuns(c, p) == IF Receiving(c) THEN OnSeek(Touched, c, p) ELSE {}
SpeedRuns(c, sp) == IF Receiving(c) THEN OnSpeed(Touched, c, sp) ELSE {}
PlayVideoRuns(c, v) ==
    IF Receiving(c) /\ nShares < MaxShares THEN OnPlayVideo(Touched, c, v) ELSE {}
ReadyRuns(c, v) == IF Receiving(c) THEN OnReady(Touched, c, v) ELSE {}
KickRuns(c, target) == IF Receiving(c) THEN OnKick(Touched, c, target) ELSE {}
SetSharedPoolRuns(c, e) == IF Receiving(c) THEN OnSetSharedPool(Touched, c, e) ELSE {}
RequestRandomRuns(c) == IF Receiving(c) THEN OnRequestRandom(Touched, c) ELSE {}
\* lines 715-716
PingRuns(c) == IF Receiving(c) THEN {Emit(Touched, Msg("pong", c, c))} ELSE {}

\* the peer closes its socket, or the connection drops
DisconnectRuns(c) ==
    IF ws[c] = "open" /\ pc[c] # "none" THEN {[Cur EXCEPT !.ws[c] = "gone"]} ELSE {}

\* receive_json() raises WebSocketDisconnect (lines 547, 718-719)
RecvClosedRuns(c) ==
    IF pc[c] = "loop" /\ ws[c] \in {"gone", "shut"} THEN Finally(Cur, c) ELSE {}

\* a suspended task is scheduled again
ResumeRuns(t) ==
    CASE pc[t] = "bc" -> BcRun(Cur, t)
      [] pc[t] = "rs" -> StartBc(Cur, t, [JoinedBc(uid[t]) EXCEPT !.name = t])
      [] pc[t] = "kick" ->
            KickRest([Cur EXCEPT !.loc[t] = NoLoc], t, loc[t].target, loc[t].name)
      [] OTHER -> {}

\* _ready_timeout, lines 473-485: the sleep is over
TimerFireRuns(k) ==
    IF pc[k] # "sleep" THEN {}
    ELSE IF pending_video = loc[k].vid
    THEN StartBc(Commit(Cur), k,
                 [NoBc EXCEPT !.typ = "all_ready", !.k = "tend", !.vid = loc[k].vid])
    ELSE {EndJob(Cur, k)}

\* upload_video: the video id an upload slot mints
VidOf(s) == s - (NChan + MaxShares)

\* a variant of UploadStartRuns without the membership check
UploadStartAnyone(s, u, n) ==
    IF pc[s] = "none" /\ \A j \in Uploads : j < s => pc[j] # "none"
    THEN IF ~alive
         THEN {Emit(Cur, Msg("http_404", s, s))}
         ELSE {[Cur EXCEPT !.expired = FALSE, !.pc[s] = "write",
                           !.loc[s] = [NoLoc EXCEPT !.name = u, !.left = n],
                           !.disk = [dir |-> TRUE,
                                     files |-> @.files \cup {VidOf(s)}]]}
    ELSE {}

\* lines 311-332: the lookup of the Room, the membership check, touch(),
\* and the file of the upload is created; n is the size of the upload
UploadStartRuns(s, u, n) ==
    IF pc[s] = "none" /\ \A j \in Uploads : j < s => pc[j] # "none"
    THEN IF ~alive
         THEN {Emit(Cur, Msg("http_404", s, s))}
         ELSE IF u \notin Keys(users)
         THEN {Emit(Cur, Msg("http_403", s, s))}
         ELSE {[Cur EXCEPT !.expired = FALSE, !.pc[s] = "write",
                           !.loc[s] = [NoLoc EXCEPT !.name = u, !.left = n],
                           !.disk = [dir |-> TRUE,
                                     files |-> @.files \cup {VidOf(s)}]]}
    ELSE {}

\* filepath.unlink(missing_ok = True)
Unlinked(m, s) == [m EXCEPT !.disk.files = @ \ {VidOf(s)}]

\* a variant of UploadChunkRuns that refuses the byte that reaches the cap
UploadChunkLax(s) ==
    IF pc[s] = "write" /\ loc[s].left > 0
    THEN { LET size == loc[s].size + k IN
           IF size >= MAX_FILE_SIZE
           THEN EndJob(Emit(Unlinked(Cur, s), Msg("http_413", s, s)), s)
           ELSE [Cur EXCEPT !.loc[s].size = size, !.loc[s].left = @ - k]
           : k \in {j \in 1..chunk_size : j <= loc[s].left} }
    ELSE {}

\* lines 333-342: one turn of the loop on a non-empty chunk of k bytes, which
\* is written unless it takes total_size over the cap
UploadChunkRuns(s) ==
    IF pc[s] = "write" /\ loc[s].left > 0
    THEN { LET size == loc[s].size + k IN
           IF size > MAX_FILE_SIZE
           THEN EndJob(Emit(Unlinked(Cur, s), Msg("http_413", s, s)), s)
           ELSE [Cur EXCEPT !.loc[s].size = size, !.loc[s].left = @ - k]
           : k \in {j \in 1..chunk_size : j <= loc[s].left} }
    ELSE {}

\* a variant of UploadFailedRuns whose except clause also covers the
\* notification of an upload already catalogued
UploadFailedLate(s) ==
    IF pc[s] \in {"write", "bc"}
    THEN {EndJob(Emit(Unlinked(Cur, s), Msg("http_500", s, s)), s)}
    ELSE {}

\* lines 343-347: the read or the write raised
UploadFailedRuns(s) ==
    IF pc[s] = "write"
    THEN {EndJob(Emit(Unlinked(Cur, s), Msg("http_500", s, s)), s)}
    ELSE {}

\* lines 335-336, 349-368: the empty chunk ends the loop; the catalogue
\* entry and the notification
UploadStoredRuns(s) ==
    IF pc[s] = "write" /\ loc[s].left = 0
    THEN StartBc([Cur EXCEPT !.videos = @ \cup {VidOf(s)},
                             !.vsize[VidOf(s)] = loc[s].size], s,
                 [NoBc EXCEPT !.typ = "video_uploaded", !.k = "uend",
                              !.vid = VidOf(s),
                              !.name = UserGet(users, loc[s].name)])
    ELSE {}

\* ---------------------------------------------------- cleanup_expired
\* time passes with no activity until the Room is past the expiry horizon
TickRuns == IF ~expired THEN {[Cur EXCEPT !.expired = TRUE]} ELSE {}

\* the attempts of the address that are inside the lockout window at time
\* now (lines 150 and 188)
Recent(attempts, now) ==
    LET Valid(t) == now - t < JOIN_LOCKOUT_SECONDS IN SelectSeq(attempts, Valid)

\* lines 183-193: the end of cleanup_expired drops the attempts that left
\* the lockout window
SweepDone(m) ==
    [m EXCEPT !.join_attempts = Recent(@, m.clock),
              !.sweep = [pc |-> "idle", todo |-> <<>>]]

\* delete_room, lines 159-166: the Room leaves the lookup and, if its
\* directory exists, rmtree runs in a thread
DeleteRoom(m) ==
    IF m.disk.dir
    THEN [m EXCEPT !.alive = FALSE, !.sweep = [pc |-> "rmtree", todo |-> <<>>]]
    ELSE SweepDone([m EXCEPT !.alive = FALSE])

\* lines 174-178: close() on the next socket of the list, whatever it raises
CloseHead(m) ==
    LET c == Head(m.sweep.todo) IN
    [m EXCEPT !.ws[c] = IF @ \in {"open", "gone"} THEN "shut" ELSE @,
              !.sweep = [pc |-> "closing", todo |-> Tail(m.sweep.todo)]]

\* the rest of cleanup_expired for the Room, up to its next suspension
SweepOn(m) == IF m.sweep.todo = <<>> THEN DeleteRoom(m) ELSE CloseHead(m)

\* cleanup_loop wakes up, lines 203-207 and 170-173: the expired Rooms are
\* listed, and for the Room the sockets of list(room.users.values())
SweepStartRuns ==
    IF sweep.pc # "idle" THEN {}
    ELSE IF alive /\ expired
    THEN {SweepOn([Cur EXCEPT !.sweep.todo =
                        [i \in DOMAIN users |-> users[i].ch]])}
    ELSE {SweepDone(Cur)}

\* the sweep resumes after a close()
SweepStepRuns == IF sweep.pc = "closing" THEN {SweepOn(Cur)} ELSE {}

\* shutil.rmtree(room_dir) has run
SweepRmtreeRuns ==
    IF sweep.pc = "rmtree"
    THEN {SweepDone([Cur EXCEPT !.disk = [dir |-> FALSE, files |-> {}]])}
    ELSE {}

\* ----------------------------------------------------------- join_room
\* time passes
AdvanceRuns == IF clock < MaxClock THEN {[Cur EXCEPT !.clock = @ + 1]} ELSE {}

\* a variant of JoinStartRuns that admits a request while MAX_JOIN_ATTEMPTS
\* attempts are in the window
JoinStartLax ==
    LET recent == Recent(join_attempts, clock) IN
    IF Len(recent) <= MAX_JOIN_ATTEMPTS
    THEN {[Cur EXCEPT !.clock = at, !.join_attempts = Append(recent, at),
                      !.joining = @ + 1, !.admitted = Append(@, clock)]
          : at \in {t \in {clock, clock + 1} : t <= MaxClock}}
    ELSE {Emit([Cur EXCEPT !.join_attempts = recent], Msg("http_429", 0, 0))}

\* lines 268-273: check_rate_limit reads the clock and prunes the attempts
\* of the address; a request over the limit is answered 429, any other is
\* recorded with the time record_join_attempt reads, which may be later,
\* and goes on to read its body
JoinStartRuns ==
    LET recent == Recent(join_attempts, clock) IN
    IF Len(recent) < MAX_JOIN_ATTEMPTS
    THEN {[Cur EXCEPT !.clock = at, !.join_attempts = Append(recent, at),
                      !.joining = @ + 1, !.admitted = Append(@, clock)]
          : at \in {t \in {clock, clock + 1} : t <= MaxClock}}
    ELSE {Emit([Cur EXCEPT !.join_attempts = recent], Msg("http_429", 0, 0))}

\* user_id = secrets.token_hex(8), line 288: an id never returned before;
\* the ids beyond Ids are not followed
Minted(m) ==
    IF m.issued = Ids THEN m
    ELSE [m EXCEPT !.issued = @ \cup {CHOOSE u \in Ids \ m.issued :
                                        \A w \in Ids \ m.issued : u <= w}]

\* lines 275-301: the body was read; the Room is looked up, the username
\* and the password are checked, and a request that passes touches the Room
\* and is answered with a new id
JoinFinishRuns ==
    IF joining = 0 THEN {}
    ELSE LET m == [Cur EXCEPT !.joining = @ - 1] IN
         IF ~alive THEN {Emit(m, Msg("http_404", 0, 0))}
         ELSE {Emit(m, Msg("http_400", 0, 0)), Emit(m, Msg("http_403", 0, 0)),
               Emit(Minted([m EXCEPT !.expired = FALSE]), Msg("http_200", 0, 0))}

Advance == \E m \in AdvanceRuns : Set(m)
JoinStart == \E m \in JoinStartRuns : Set(m)
JoinFinish == \E m \in JoinFinishRuns : Set(m)

RoomMissing(c) == \E m \in RoomMissingRuns(c) : Set(m)
Tick == \E m \in TickRuns : Set(m)
SweepStart == \E m \in SweepStartRuns : Set(m)
SweepStep == \E m \in SweepStepRuns : Set(m)
SweepRmtree == \E m \in SweepRmtreeRuns : Set(m)
UploadChunk(s) == \E m \in UploadChunkRuns(s) : Set(m)
UploadFailed(s) == \E m \in UploadFailedRuns(s) : Set(m)
AuthRefused(c) == \E m \in AuthRefusedRuns(c) : Set(m)
AuthTimeout(c) == \E m \in AuthTimeoutRuns(c) : Set(m)
Auth(c, u) == \E m \in AuthRuns(c, u) : Set(m)
Play(c, p) == \E m \in PlayRuns(c, p) : Set(m)
Pause(c, p) == \E m \in PauseRuns(c, p) : Set(m)
Seek(c, p) == \E m \in SeekRuns(c, p) : Set(m)
Speed(c, sp) == \E m \in SpeedRuns(c, sp) : Set(m)
PlayVideo(c, v) == \E m \in PlayVideoRuns(c, v) : Set(m)
Ready(c, v) == \E m \in ReadyRuns(c, v) : Set(m)
Kick(c, target) == \E m \in KickRuns(c, target) : Set(m)
SetSharedPool(c, e) == \E m \in SetSharedPoolRuns(c, e) : Set(m)
RequestRandom(c) == \E m \in RequestRandomRuns(c) : Set(m)
Ping(c) == \E m \in PingRuns(c) : Set(m)
Disconnect(c) == \E m \in DisconnectRuns(c) : Set(m)
RecvClosed(c) == \E m \in RecvClosedRuns(c) : Set(m)
Resume(t) == \E m \in ResumeRuns(t) : Set(m)
TimerFire(k) == \E m \in TimerFireRuns(k) : Set(m)
UploadStart(s, u, n) == \E m \in UploadStartRuns(s, u, n) : Set(m)
UploadStored(s) == \E m \in UploadStoredRuns(s) : Set(m)

\* ------------------------------------------------------------- Next
Next ==
    \/ \E c \in Chans : AuthRefused(c)
    \/ \E c \in Chans : AuthTimeout(c)
    \/ \E c \in Chans, u \in Ids : Auth(c, u)
    \/ \E c \in Chans, p \in Positions : Play(c, p)
    \/ \E c \in Chans, p \in Positions : Pause(c, p)
    \/ \E c \in Chans, p \in Positions : Seek(c, p)
    \/ \E c \in Chans, sp \in Speeds : Speed(c, sp)
    \/ \E c \in Chans, v \in Vids : PlayVideo(c, v)
    \/ \E c \in Chans, v \in Vids : Ready(c, v)
    \/ \E c \in Chans, u \in Ids : Kick(c, u)
    \/ \E c \in Chans, e \in BOOLEAN : SetSharedPool(c, e)
    \/ \E c \in Chans : RequestRandom(c)
    \/ \E c \in Chans : Ping(c)
    \/ \E c \in Chans : Disconnect(c)
    \/ \E c \in Chans : RecvClosed(c)
    \/ \E t \in Tasks : Resume(t)
    \/ \E k \in Timers : TimerFire(k)
    \/ \E s \in Uploads, u \in Ids, n \in Sizes : UploadStart(s, u, n)
    \/ \E s \in Uploads : UploadChunk(s)
    \/ \E s \in Uploads : UploadFailed(s)
    \/ \E c \in Chans : RoomMissing(c)
    \/ Tick
    \/ SweepStart
    \/ SweepStep
    \/ SweepRmtree
    \/ Advance
    \/ JoinStart
    \/ JoinFinish
    \/ NextClient
    \/ UserCreate
    \/ \E k \in CChans : Kicked(k)
    \/ NextPlayer
    \/ \E s \in Uploads : UploadStored(s)

Spec == Init /\ [][Next]_vars

\* every result any step can have in the current state
Runs ==
    UNION {AuthRefusedRuns(c) \cup AuthTimeoutRuns(c) \cup RequestRandomRuns(c)
           \cup PingRuns(c) \cup DisconnectRuns(c) \cup RecvClosedRuns(c) : c \in Chans}
    \cup UNION {AuthRuns(c, u) \cup KickRuns(c, u) : c \in Chans, u \in Ids}
    \cup UNION {PlayRuns(c, p) \cup PauseRuns(c, p) \cup SeekRuns(c, p)
                : c \in Chans, p \in Positions}
    \cup UNION {SpeedRuns(c, sp) : c \in Chans, sp \in Speeds}
    \cup UNION {PlayVideoRuns(c, v) \cup ReadyRuns(c, v) : c \in Chans, v \in Vids}
    \cup UNION {SetSharedPoolRuns(c, e) : c \in Chans, e \in BOOLEAN}
    \cup UNION {ResumeRuns(t) : t \in Tasks}
    \cup UNION {TimerFireRuns(k) : k \in Timers}
    \cup UNION {UploadStartRuns(s, u, n) : s \in Uploads, u \in Ids, n \in Sizes}
    \cup UNION {UploadChunkRuns(s) \cup UploadFailedRuns(s) \cup UploadStoredRuns(s)
                : s \in Uploads}
    \cup UNION {RoomMissingRuns(c) : c \in Chans}
    \cup TickRuns \cup SweepStartRuns \cup SweepStepRuns \cup SweepRmtreeRuns
    \cup AdvanceRuns \cup JoinStartRuns \cup JoinFinishRuns

\* what the steps of the current state can emit
Outputs == UNION {m.out : m \in Runs}

\* ------------------------------------------- the client in the Room
\* The one client and the server together, for the shared-pool flag: what
\* the client sends is received by the handler of its channel at once, and
\* what a fan-out has sent to that channel is handled by the client when the
\* fan-out ends.  The creator of the Room holds channel 1; the client's k-th
\* WebSocketApp is the server's channel SrvChan(k), and the id join_room
\* gave it is SrvId of its count.
SrvChan(k) == k + 1
SrvId(n) == n + 1

\* shared_pool_changed, session_client.py lines 596-600: the client handles
\* what the step has sent to its open channel
Deliver(m) ==
    IF \E r \in m.out : /\ r.typ = "shared_pool_changed"
                         /\ \E k \in CChans : m.cl.wst[k] = "open" /\ SrvChan(k) \in r.sent
    THEN OnSharedPoolChanged(m, m.shared_pool)
    ELSE m

\* _on_ws_open sends auth (session_client.py lines 468-477), and the server
\* registers the channel (server.py lines 509-541)
PoolWsOpenRuns(k) ==
    IF Accepting(SrvChan(k))
    THEN UNION {{[s EXCEPT !.cl = m.cl]
                  : s \in AuthRuns(SrvChan(k), SrvId(m.cl.user_id))}
                : m \in WsOpenRuns(k)}
    ELSE {}

\* the client's channel ends, and the server's end of it with it
ClientGoneRuns(k) ==
    {IF ws[SrvChan(k)] = "open" /\ pc[SrvChan(k)] # "none"
     THEN [m EXCEPT !.ws[SrvChan(k)] = "gone"] ELSE m
       : m \in WsCloseRuns(k)}

\* the user of the client ticks the box; the server handles the
\* set_shared_pool it sends (server.py lines 681-692)
PoolToggledRuns(e) ==
    IF CanSend(cl)
    THEN IF Receiving(SrvChan(cl.ws))
         THEN UNION {{Deliver(s) : s \in OnSetSharedPool([m EXCEPT !.expired = FALSE],
                                                         SrvChan(cl.ws), e)}
                     : m \in SharedPoolToggledRuns(e)}
         ELSE {}
    ELSE SharedPoolToggledRuns(e)

\* the creator's set_shared_pool
HostSetPoolRuns(e) == {Deliver(m) : m \in SetSharedPoolRuns(1, e)}

\* a suspended task of the server is scheduled again
PoolResumeRuns(t) == {Deliver(m) : m \in ResumeRuns(t)}

PoolWsOpen(k) == \E m \in PoolWsOpenRuns(k) : Set(m)
ClientGone(k) == \E m \in ClientGoneRuns(k) : Set(m)
PoolToggled(e) == \E m \in PoolToggledRuns(e) : Set(m)
HostSetPool(e) == \E m \in HostSetPoolRuns(e) : Set(m)
PoolResume(t) == \E m \in PoolResumeRuns(t) : Set(m)

NextPool ==
    \/ Auth(1, host_id)
    \/ \E e \in BOOLEAN : HostSetPool(e)
    \/ \E t \in Tasks : PoolResume(t)
    \/ \E c \in Chans : RecvClosed(c)
    \/ UserJoin
    \/ \E a \in Answers : JoinAnswer(a)
    \/ \E k \in CChans : PoolWsOpen(k)
    \/ \E k \in CChans : ClientGone(k)
    \/ \E e \in BOOLEAN : PoolToggled(e)
    \/ ReconnectFire
    \/ ReconnectCheck
    \/ \E a \in Answers : ReconnectAnswer(a)

SpecPool == Init /\ [][NextPool]_vars

\* --------------------------------------------------- the environments
\* The program under three environments, each a part of Next: clients that
\* present their own id and only upload, share, report ready and leave
\* (the ready-sync barrier); clients that only send playback messages; and
\* clients that present any id and only send the host's and the pool's
\* messages.

SyncShares == 1   \* accepted play_video messages in the barrier environment
SyncVids == 1     \* uploads in the barrier environment

NextSync ==
    \/ \E c \in Chans : Auth(c, c)
    \/ \E c \in Chans, v \in Vids : nShares < SyncShares /\ PlayVideo(c, v)
    \/ \E c \in Chans, v \in Vids : Ready(c, v)
    \/ \E c \in Chans : Disconnect(c)
    \/ \E c \in Chans : RecvClosed(c)
    \/ \E t \in Tasks : Resume(t)
    \/ \E k \in Timers : TimerFire(k)
    \/ \E s \in Uploads, u \in Ids : VidOf(s) <= SyncVids /\ UploadStart(s, u, 0)
    \/ \E s \in Uploads : UploadStored(s)

SpecSync == Init /\ [][NextSync]_vars

ReshareChans == 2  \* channels in the environment of repeated shares

\* the barrier environment with two participants and MaxShares shares
NextReshare ==
    \/ \E c \in 1..ReshareChans : Auth(c, c)
    \/ \E c \in Chans, v \in Vids : PlayVideo(c, v)
    \/ \E c \in Chans, v \in Vids : Ready(c, v)
    \/ \E c \in Chans : Disconnect(c)
    \/ \E c \in Chans : RecvClosed(c)
    \/ \E t \in Tasks : Resume(t)
    \/ \E k \in Timers : TimerFire(k)
    \/ \E s \in Uploads, u \in Ids : UploadStart(s, u, 0)
    \/ \E s \in Uploads : UploadStored(s)

SpecReshare == Init /\ [][NextReshare]_vars

\* the barrier environment with clients that also send play
NextSyncPlay ==
    \/ NextSync
    \/ \E c \in Chans : Play(c, 1)

SpecSyncPlay == Init /\ [][NextSyncPlay]_vars

NextPlayback ==
    \/ \E c \in Chans : Auth(c, c)
    \/ \E c \in Chans, p \in Positions : Play(c, p)
    \/ \E c \in Chans, p \in Positions : Pause(c, p)
    \/ \E c \in Chans, p \in Positions : Seek(c, p)
    \/ \E c \in Chans, sp \in Speeds : Speed(c, sp)
    \/ \E c \in Chans : Disconnect(c)
    \/ \E c \in Chans : RecvClosed(c)
    \/ \E t \in Tasks : Resume(t)

SpecPlayback == Init /\ [][NextPlayback]_vars

NextAdmin ==
    \/ \E c \in Chans : AuthRefused(c)
    \/ \E c \in Chans : AuthTimeout(c)
    \/ \E c \in Chans, u \in Ids : Auth(c, u)
    \/ \E c \in Chans, u \in Ids : Kick(c, u)
    \/ \E c \in Chans, e \in BOOLEAN : SetSharedPool(c, e)
    \/ \E c \in Chans : RequestRandom(c)
    \/ \E c \in Chans : Ping(c)
    \/ \E c \in Chans : Disconnect(c)
    \/ \E c \in Chans : RecvClosed(c)
    \/ \E t \in Tasks : Resume(t)

SpecAdmin == Init /\ [][NextAdmin]_vars

\* The upload endpoint and the reaper: two participants at most, uploads of
\* every size up to one byte over the cap, the clock and the sweep.
UploadChans == 1

NextUpload ==
    \/ \E c \in Chans : c <= UploadChans /\ Auth(c, c)
    \/ \E c \in Chans : Disconnect(c)
    \/ \E c \in Chans : RecvClosed(c)
    \/ \E t \in Tasks : Resume(t)
    \/ \E s \in Uploads, u \in Ids, n \in Sizes : UploadStart(s, u, n)
    \/ \E s \in Uploads : UploadChunk(s)
    \/ \E s \in Uploads : UploadFailed(s)
    \/ \E s \in Uploads : UploadStored(s)
    \/ Tick
    \/ SweepStart
    \/ SweepStep
    \/ SweepRmtree

SpecUpload == Init /\ [][NextUpload]_vars

\* The reaper against live channels: messages (ping) keep arriving while
\* the clock runs and the sweep closes sockets; one empty upload makes the
\* Room's directory.
NextReap ==
    \/ \E c \in Chans : Auth(c, c)
    \/ \E s \in Uploads, u \in Ids : VidOf(s) <= SyncVids /\ UploadStart(s, u, 0)
    \/ \E s \in Uploads : UploadStored(s)
    \/ \E c \in Chans : RoomMissing(c)
    \/ \E c \in Chans : Ping(c)
    \/ \E c \in Chans : Disconnect(c)
    \/ \E c \in Chans : RecvClosed(c)
    \/ \E t \in Tasks : Resume(t)
    \/ Tick
    \/ SweepStart
    \/ SweepStep
    \/ SweepRmtree

SpecReap == Init /\ [][NextReap]_vars

\* The join endpoint under requests of one remote address, with the clock
\* and the sweep that prunes the recorded attempts and reaps the Room.
NextJoin ==
    \/ Advance
    \/ JoinStart
    \/ JoinFinish
    \/ Tick
    \/ SweepStart
    \/ SweepStep
    \/ \E c \in Chans : c <= UploadChans /\ Auth(c, c)

SpecJoin == Init /\ [][NextJoin]_vars

\* One SessionClient against a server and a network that answer as they
\* please.
SpecClient == Init /\ [][NextClient]_vars

\* The same client when the host may kick it.
NextKicked ==
    \/ NextClient
    \/ \E k \in CChans : Kicked(k)

SpecKicked == Init /\ [][NextKicked]_vars

\* The same client when the user may create a Room instead of joining one.
NextHost ==
    \/ NextClient
    \/ UserCreate

SpecHost == Init /\ [][NextHost]_vars

\* The player's controls: the user's and the remote playback events of one
\* connection of the client.
NextControls ==
    \/ UserJoin
    \/ \E a \in Answers : JoinAnswer(a)
    \/ \E k \in CChans : WsOpen(k)
    \/ \E k \in CChans : WsClose(k)
    \/ TogglePlayPause
    \/ \E x \in Positions : SetPosition(x)
    \/ \E s \in Speeds : Wheel(s)
    \/ Playing
    \/ \E x \in Positions : RemotePlay(x)
    \/ \E x \in Positions : RemotePause(x)
    \/ \E x \in Positions : RemoteSeek(x)
    \/ \E s \in Speeds : RemoteSpeed(s)
    \/ \E v \in Vids : AllReady(v)

SpecControls == Init /\ [][NextControls]_vars

\* The sharing of a clip by the client in one connection.
NextShare ==
    \/ UserJoin
    \/ \E a \in Answers : JoinAnswer(a)
    \/ \E k \in CChans : WsOpen(k)
    \/ \E k \in CChans : WsClose(k)
    \/ TogglePlayPause
    \/ \E e \in BOOLEAN : SharedPoolToggled(e)
    \/ \E e \in BOOLEAN : SharedPoolChanged(e)
    \/ PlayRandomClip
    \/ RandomClipRequested
    \/ \E a \in Answers, v \in Vids : UploadAnswer(a, v)
    \/ \E v \in Vids : AllReady(v)
    \/ \E t \in Shots : Shot(t)

SpecShare == Init /\ [][NextShare]_vars

JoinVids == 1     \* videos of the Room the client joins

\* The client joins a Room whose video is playing, or is told to prepare one.
NextSyncJoin ==
    \/ UserJoin
    \/ \E a \in Answers : JoinAnswer(a)
    \/ \E k \in CChans : WsOpen(k)
    \/ \E k \in CChans : WsClose(k)
    \/ \E s \in Speeds : Wheel(s)
    \/ Playing
    \/ \E v \in 1..JoinVids : PrepareVideo(v)
    \/ \E k \in CChans, v \in 0..JoinVids, st \in SyncStates : RoomState(k, v, st)
    \/ \E v \in 1..JoinVids, a \in Answers : Download(v, a)
    \/ \E t \in Shots : Shot(t)

SpecSyncJoin == Init /\ [][NextSyncJoin]_vars

\* The two ways into the Room: join requests over HTTP, and two channels that
\* authenticate with whatever id they present.
EntryChans == 2

NextEntry ==
    \/ JoinStart
    \/ JoinFinish
    \/ \E c \in Chans, u \in Ids : c <= EntryChans /\ Auth(c, u)
    \/ \E c \in Chans : Disconnect(c)
    \/ \E c \in Chans : RecvClosed(c)
    \/ \E t \in Tasks : Resume(t)

SpecEntry == Init /\ [][NextEntry]_vars

\* ------------------------------------------------------------- claims

\* C1: whenever pending_video is set (the Room is SYNCING),
\* playback_state.playing is false.
C1_PendingPaused == pending_video # 0 => ~playback_state.playing

\* C2: ready_users only ever holds ids of current participants: it is a
\* subset of the keys of users.
C2_ReadySubset == ready_users \subseteq Keys(users)

\* C3: ready_users is non-empty only while pending_video is set; once the
\* barrier has committed it is empty.
C3_ReadyOnlyPending == ready_users # {} => pending_video # 0

\* a task is suspended in a send
Suspended(t) == pc[t] \in {"bc", "rs", "kick"}

\* C4: a Room that is SYNCING eventually commits even if no ready message
\* ever arrives, given only that the timeout task fires.  As a property of
\* every reachable state: while the Room is SYNCING, the timeout task for
\* pending_video is sleeping, or some task is still suspended in a send and
\* may yet start it; otherwise only a client's message can end SYNCING.
C4_TimeoutArmed ==
    pending_video # 0 =>
        \/ \E k \in Timers : pc[k] = "sleep" /\ loc[k].vid = pending_video
        \/ \E t \in Tasks : Suspended(t)

Committed(m) ==
    /\ m.pending_video = 0
    /\ m.playback_state.playing
    /\ m.playback_state.position = 0

\* the fan-out of ready_progress of channel c's ready handler is over in m
ProgressOver(m, c) == m.pc[c] # "bc" \/ m.bc[c].typ # "ready_progress"

\* C5: a ready(v) handled while pending_video = v inserts the sender into
\* ready_users, broadcasts ready_progress with ready = |participants in
\* ready_users| and total = |participants|, and, if every participant is
\* then in ready_users, commits the barrier: whenever the ready_progress
\* fan-out of such a handler is over, the barrier has committed.
C5_ReadyCommits ==
    /\ \A c \in Chans, v \in Vids : \A m \in ReadyRuns(c, v) :
          pending_video = v =>
            /\ uid[c] \in m.ready_users
            /\ \A r \in m.out : r.typ = "ready_progress" =>
                  /\ r.ready = Cardinality(Keys(users) \cap (ready_users \cup {uid[c]}))
                  /\ r.total = Cardinality(Keys(users))
            /\ (ProgressOver(m, c) /\ Keys(users) \subseteq ready_users \cup {uid[c]})
                  => Committed(m)
    /\ \A c \in Chans : \A m \in ResumeRuns(c) :
          (pc[c] = "bc" /\ bc[c].typ = "ready_progress" /\ bc[c].commit /\ ProgressOver(m, c))
            => Committed(m)

\* C6: when a participant leaves while the Room is SYNCING and every
\* remaining participant is already in ready_users, the barrier commits at
\* that leave.
C6_LeaveCommits ==
    \A c \in Chans : \A m \in RecvClosedRuns(c) :
        (pending_video # 0 /\ Keys(m.users) # {} /\ Keys(m.users) \subseteq m.ready_users)
          => Committed(m)

\* C7: a participant that authenticates while the Room is SYNCING is not
\* added to ready_users, and the barrier commits as soon as every
\* participant that was present at the play_video has reported ready: a ready
\* handler that returns with all of them in ready_users has committed.
C7_LateJoiner ==
    /\ \A c \in Chans, u \in Ids : \A m \in AuthRuns(c, u) :
          pending_video # 0 => m.ready_users = ready_users
    /\ \A c \in Chans, v \in Vids : \A m \in ReadyRuns(c, v) :
          (/\ pending_video = v
           /\ m.pc[c] = "loop"
           /\ (Keys(users) \cap present) \subseteq ready_users \cup {uid[c]})
            => m.pending_video = 0

PlaybackTypes == {"play", "pause", "seek", "speed"}

\* C8: the fan-out of a play, pause, seek or speed message reaches every
\* other participant and never the originator.
C8_PlaybackFanout ==
    \A r \in Outputs : r.typ \in PlaybackTypes => r.missed = {} /\ r.by \notin r.sent

RoomTypes == {"user_left", "ready_progress", "all_ready", "video_uploaded"}

C11_HostKick ==
    /\ \A c \in Chans, u \in Ids :
          (/\ Receiving(c) /\ uid[c] = host_id /\ u # host_id
           /\ u \in Keys(users) /\ ws[UserGet(users, u)] = "open")
            => \A m \in KickRuns(c, u) :
                  /\ Msg("kicked", c, UserGet(users, u)) \in m.out
                  /\ m.ws[UserGet(users, u)] = "shut"
                  /\ m.pc[c] # "kick" => u \notin Keys(m.users)
                  /\ \A r \in m.out : r.typ = "user_kicked" => r.missed = {}
    /\ \A c \in Chans : \A m \in ResumeRuns(c) :
          /\ pc[c] = "kick" => loc[c].target \notin Keys(m.users)
    /\ \A c \in Chans : \A m \in ResumeRuns(c) :
          (pc[c] = "kick" \/ (pc[c] = "bc" /\ bc[c].typ = "user_kicked"))
            => (m.pc[c] # "bc" => \E r \in m.out :
                    r.typ = "user_kicked" /\ r.missed = {})

\* C12: no two open authenticated channels of the Room carry the same
\* participant id, whatever user_id values the clients present in auth.
C12_OneChannelPerId ==
    \A c, d \in Chans :
        (c # d /\ uid[c] # 0 /\ uid[d] # 0 /\ ws[c] = "open" /\ ws[d] = "open")
          => uid[c] # uid[d]

\* C13: no record of users belongs to a channel that has ended, and when an
\* authenticated channel closes, its handler removes the record registered
\* for that channel, keeps the record of every other connected channel, and
\* broadcasts user_left naming the participant of that channel.
C13_CloseRemovesOwn ==
    /\ \A i \in DOMAIN users : ws[users[i].ch] # "closed"
    /\ \A c \in Chans : \A m \in RecvClosedRuns(c) :
          uid[c] # 0 =>
            /\ \A i \in DOMAIN m.users : m.users[i].ch # c
            /\ \A i \in DOMAIN users :
                  (users[i].ch # c /\ ws[users[i].ch] = "open")
                    => \E j \in DOMAIN m.users : m.users[j] = users[i]
            /\ \A r \in m.out : r.typ = "user_left" => r.name = c

\* the Room's state as a handler reads and writes it
RoomOf(m) ==
    <<m.users, m.current_video, m.pending_video, m.ready_users,
      m.playback_state, m.shared_pool>>

\* what the handlers of play, pause, seek, speed, play_video, ready, kick,
\* set_shared_pool and leave can do on channel c from the current state
HandlerRuns(c) ==
    RecvClosedRuns(c)
    \cup UNION {SetSharedPoolRuns(c, e) : e \in BOOLEAN}
    \cup UNION {PlayVideoRuns(c, v) \cup ReadyRuns(c, v) : v \in Vids}
    \cup UNION {KickRuns(c, u) : u \in Ids}
    \cup UNION {PlayRuns(c, p) \cup PauseRuns(c, p) \cup SeekRuns(c, p)
                : p \in Positions}
    \cup UNION {SpeedRuns(c, s) : s \in Speeds}

\* C14: while the handler of one channel is between its first state change
\* and the end of its fan-out, no handler of another channel and no barrier
\* timeout can run and change the Room's state.
C14_NoInterleave ==
    \A t \in Chans :
        (pc[t] = "bc" /\ bc[t].typ \notin {"user_joined", "video_uploaded"})
          => /\ \A c \in Chans \ {t} : \A m \in HandlerRuns(c) :
                    RoomOf(m) = RoomOf(Cur)
             /\ \A k \in Timers : \A m \in TimerFireRuns(k) :
                    RoomOf(m) = RoomOf(Cur)

\* what the handlers of play, pause, seek and speed can do on channel c
PlaybackRuns(c) ==
    UNION {PlayRuns(c, p) \cup PauseRuns(c, p) \cup SeekRuns(c, p) : p \in Positions}
    \cup UNION {SpeedRuns(c, s) : s \in Speeds}

\* C15: when the Room applied playback event e1 of channel t, whose fan-out
\* is still under way, and then applies and fans out e2 of channel c, a
\* recipient d that got e2 without having got e1 is not sent e1 afterwards:
\* every recipient of both receives them in the order the Room applied them.
C15_FanoutOrder ==
    \A t \in Chans :
        (pc[t] = "bc" /\ bc[t].typ \in PlaybackTypes)
          => \A c \in Chans \ {t} : \A m \in PlaybackRuns(c) : \A d \in Chans :
                (/\ d \notin bc[t].sent
                 /\ \E r \in m.out : r.by = c /\ r.typ \in PlaybackTypes /\ d \in r.sent)
                  => \A m2 \in BcRun(m, t) : \A r \in m2.out :
                        (r.by = t /\ r.typ \in PlaybackTypes) => d \notin r.sent

\* C16: a channel whose first message is not auth, or whose handshake
\* deadline passes, is sent an error message and closed; no record is made
\* for it and no user_joined or user_left is broadcast.
C16_HandshakeRefused ==
    \A c \in Chans : \A m \in AuthRefusedRuns(c) \cup AuthTimeoutRuns(c) :
        /\ Msg("error_auth", c, c) \in m.out
        /\ m.pc[c] = "done" /\ m.ws[c] = "closed"
        /\ m.users = users /\ m.uid[c] = 0
        /\ \A r \in m.out : r.typ \notin {"user_joined", "user_left"}

\* what an upload request leaves behind: the catalogue, the files, and
\* whether the request goes on
Stored(m, s) == <<m.videos, m.vsize, m.disk, m.pc[s]>>

\* C17: an upload to a Room that is not in the lookup is answered 404 and an
\* upload by an id that is not in users 403, and neither adds a catalogue
\* entry, leaves a file or broadcasts; an upload that is accepted adds
\* exactly one catalogue entry, under a video id not in use, and starts the
\* video_uploaded fan-out.
C17_UploadMembership ==
    /\ \A s \in Uploads, u \in Ids, n \in Sizes : \A m \in UploadStartRuns(s, u, n) :
          (~alive \/ u \notin Keys(users))
            => /\ Msg(IF alive THEN "http_403" ELSE "http_404", s, s) \in m.out
               /\ Stored(m, s) = Stored(Cur, s)
               /\ \A r \in m.out : r.typ # "video_uploaded"
    /\ \A s \in Uploads : \A m \in UploadStoredRuns(s) :
          /\ VidOf(s) \notin videos
          /\ m.videos = videos \cup {VidOf(s)}
          /\ \/ m.pc[s] = "bc" /\ m.bc[s].typ = "video_uploaded" /\ m.bc[s].vid = VidOf(s)
             \/ \E r \in m.out : r.typ = "video_uploaded" /\ r.by = s /\ r.vid = VidOf(s)

\* an upload was accepted and catalogued while some id is not a member and
\* gets 403
C17_Reached ==
    \E s \in Uploads, u \in Ids :
        /\ pc[s] = "done" /\ VidOf(s) \in videos
        /\ alive /\ u \notin Keys(users)
        /\ \E t \in Uploads : UploadStartRuns(t, u, 0) # {}

\* C18: an upload of at most MAX_FILE_SIZE bytes is never answered 413,
\* whatever the chunks, and once read to its end it is catalogued with its
\* size; an upload of more bytes is never catalogued, and the chunk that
\* takes it over the cap ends it with 413, no file and no catalogue entry.
C18_SizeCap ==
    \A s \in Uploads :
        pc[s] = "write" =>
          LET total == loc[s].size + loc[s].left IN
          /\ loc[s].size <= MAX_FILE_SIZE
          /\ total <= MAX_FILE_SIZE =>
                /\ \A m \in UploadChunkRuns(s) :
                      /\ m.pc[s] = "write"
                      /\ m.loc[s].size + m.loc[s].left = total
                      /\ Msg("http_413", s, s) \notin m.out
                /\ \A m \in UploadStoredRuns(s) :
                      VidOf(s) \in m.videos /\ m.vsize[VidOf(s)] = total
          /\ total > MAX_FILE_SIZE =>
                /\ UploadStoredRuns(s) = {}
                /\ \A m \in UploadChunkRuns(s) :
                      \/ /\ m.pc[s] = "write"
                         /\ m.loc[s].size + m.loc[s].left = total
                      \/ /\ m.pc[s] = "done"
                         /\ Msg("http_413", s, s) \in m.out
                         /\ VidOf(s) \notin m.disk.files
                         /\ VidOf(s) \notin m.videos

\* an upload of exactly MAX_FILE_SIZE bytes is catalogued while another
\* has one byte left that takes it over the cap
C18_Reached ==
    \E s, t \in Uploads :
        /\ pc[s] = "done" /\ VidOf(s) \in videos /\ vsize[VidOf(s)] = MAX_FILE_SIZE
        /\ pc[t] = "write" /\ loc[t].size = MAX_FILE_SIZE /\ loc[t].left = 1

\* C19: while the Room is alive the file of every catalogue entry is on
\* disk, and no step of the program that leaves the Room alive removes a
\* catalogue entry or changes its size, or adds an entry other than the one
\* of an upload that was read to its end.
C19_CatalogueStable ==
    /\ alive => videos \subseteq disk.files
    /\ \A m \in Runs :
          m.alive =>
            /\ videos \subseteq m.videos
            /\ \A v \in videos : m.vsize[v] = vsize[v]
            /\ \A v \in m.videos \ videos :
                  \E s \in Uploads :
                     /\ v = VidOf(s) /\ pc[s] = "write" /\ loc[s].left = 0
                     /\ m \in UploadStoredRuns(s)
                     /\ m.vsize[v] = loc[s].size

\* a catalogue entry and its file exist while a sweep is closing the
\* sockets of the Room it is about to reap
C19_Reached ==
    \E v \in videos : alive /\ v \in disk.files /\ sweep.pc = "closing"

\* C20: the step of a sweep that removes the Room from the lookup finds it
\* expired at that moment and leaves no participant's socket open, and a
\* sweep that starts on a Room that is not expired changes nothing.
C20_ReapOnlyExpired ==
    /\ \A m \in SweepStartRuns \cup SweepStepRuns :
          (alive /\ ~m.alive) =>
            /\ expired
            /\ \A i \in DOMAIN m.users : m.ws[m.users[i].ch] # "open"
    /\ \A m \in SweepStartRuns : (alive /\ ~expired) => m = Cur

\* what a request leaves of the server's state apart from the attempts
\* recorded for its address
ServerOf(m) ==
    <<RoomOf(m), m.videos, m.vsize, m.disk, m.alive, m.expired, m.ws, m.pc,
      m.uid, m.sweep, m.joining, m.admitted, m.clock>>

\* C21: no lockout window holds more than MAX_JOIN_ATTEMPTS admitted join
\* requests of the address; a request that arrives while that many recorded
\* attempts are inside the window is answered 429, is not recorded and
\* leaves the Room and the rest of the server as they are; a request that
\* arrives while fewer are inside the window is admitted and recorded.
C21_RateLimit ==
    /\ \A w \in 0..MaxClock :
          Cardinality({i \in DOMAIN admitted :
                          w <= admitted[i] /\ admitted[i] < w + JOIN_LOCKOUT_SECONDS})
            <= MAX_JOIN_ATTEMPTS
    /\ \A m \in JoinStartRuns :
          IF Len(Recent(join_attempts, clock)) >= MAX_JOIN_ATTEMPTS
          THEN /\ Msg("http_429", 0, 0) \in m.out
               /\ ServerOf(m) = ServerOf(Cur)
               /\ m.join_attempts = Recent(join_attempts, clock)
          ELSE /\ Msg("http_429", 0, 0) \notin m.out
               /\ m.joining = joining + 1
               /\ Len(m.join_attempts) = Len(Recent(join_attempts, clock)) + 1

\* the address was locked out, its attempts aged out of the window, and it
\* is admitted again
C21_Reached ==
    /\ Len(admitted) > MAX_JOIN_ATTEMPTS
    /\ Len(join_attempts) = MAX_JOIN_ATTEMPTS
    /\ Recent(join_attempts, clock) = <<>>

\* C22: set_shared_pool from a participant that is not the host leaves
\* shared_pool as it is and sends an error to the requester only; from the
\* host it sets shared_pool to the requested value and the fan-out of
\* shared_pool_changed excludes nobody and misses no participant.
C22_SharedPool ==
    /\ \A c \in Chans, e \in BOOLEAN : \A m \in SetSharedPoolRuns(c, e) :
          IF uid[c] # host_id
          THEN m.shared_pool = shared_pool /\ m.out = {Msg("error_pool", c, c)}
          ELSE /\ m.shared_pool = e
               /\ \A r \in m.out :
                     /\ r.typ = "shared_pool_changed"
                     /\ r.ex = 0 /\ r.missed = {}
    /\ \A c \in Chans : \A m \in ResumeRuns(c) : \A r \in m.out :
          r.typ = "shared_pool_changed" => r.ex = 0 /\ r.missed = {}

\* the timers a client has armed or running towards a join request
Pending(c) == Orphans(c.reconnect_timer) + c.rorph + c.rchk + c.rpost

\* C23: while the user has not disconnected, the delays of the reconnect
\* timers since the last success are 2, 4, 8, 16, 30 in this order, so at
\* most five; a failed attempt arms the next timer if fewer than five were
\* made and otherwise surfaces the disconnection; the answer 404 surfaces
\* it at once and arms nothing; the answer 200 opens a new channel, and a
\* channel that opens in a session the user never disconnected from sends
\* auth with the user id issued last.
C23_Reconnect ==
    /\ Len(cl.delays) <= 5
    /\ \A i \in DOMAIN cl.delays : cl.delays[i] = <<2, 4, 8, 16, 30>>[i]
    /\ \A m \in ReconnectAnswerRuns("other") :
          IF cl.reconnect_attempts < 5
          THEN /\ Pending(m.cl) = Pending(cl)
               /\ m.cl.delays = Append(cl.delays, <<2, 4, 8, 16, 30>>[Len(cl.delays) + 1])
          ELSE /\ Pending(m.cl) = Pending(cl) - 1
               /\ m.cl.surfaced = "failed"
    /\ \A m \in ReconnectAnswerRuns("404") :
          Pending(m.cl) = Pending(cl) - 1 /\ m.cl.surfaced = "gone"
    /\ \A m \in ReconnectAnswerRuns("200") :
          /\ m.cl.user_id = cl.issued + 1
          /\ m.cl.ws # 0 /\ cl.wst[m.cl.ws] = "none" /\ m.cl.wst[m.cl.ws] = "opening"
    /\ \A k \in CChans : \A m \in WsOpenRuns(k) :
          (~cl.shutting_down /\ cl.sessions <= 1) =>
              m.cl.auth[k] = cl.issued /\ cl.issued > 0

\* the fifth attempt, armed with the delay 30, is waiting for its answer
C23_Reached ==
    /\ cl.delays = <<2, 4, 8, 16, 30>> /\ cl.rpost = 1 /\ ~cl.shutting_down
    /\ \E k \in CChans : cl.wst[k] = "closed" /\ cl.auth[k] # 0

\* C24: once disconnect() has returned and until the user starts a new
\* session, the client sends no ping, makes no join request and opens no
\* channel, and no reconnect or ping timer is left armed.
C24_QuietAfterDisconnect ==
    cl.quiet =>
      /\ cl.late = {}
      /\ cl.reconnect_timer # "armed" /\ cl.rorph = 0
      /\ cl.ping_timer # "armed" /\ cl.porph = 0


\* every result of applying a remote playback event or all_ready
RemoteApplied ==
    UNION ({RemotePlayRuns(x) : x \in Positions} \cup {RemotePauseRuns(x) : x \in Positions}
           \cup {RemoteSeekRuns(x) : x \in Positions} \cup {RemoteSpeedRuns(s) : s \in Speeds}
           \cup {AllReadyRuns(v) : v \in Vids})

\* every result of a local play/pause, seek or speed action
LocalApplied ==
    TogglePlayPauseRuns \cup UNION ({SetPositionRuns(x) : x \in Positions}
                                    \cup {WheelRuns(s) : s \in Speeds})

\* C25: applying a remote play, pause, seek, speed or all_ready event sends
\* no message: every call it makes of the media controller is made with
\* ignore_remote raised, and the flag is lowered when the slot returns, so
\* that it is down between slots; a local play/pause, seek or speed action
\* of a connected client sends exactly one message.
C25_NoEcho ==
    /\ ~pl.ignore_remote
    /\ \A m \in RemoteApplied :
          m.pl.sent = <<>> /\ ~m.pl.bare /\ ~m.pl.ignore_remote
    /\ \A m \in LocalApplied : CanSend(cl) => Len(m.pl.sent) = 1

\* a remote event was applied by a connected client whose user had changed
\* the playback before
C25_Reached ==
    /\ pl.slot \in {"remote_play", "remote_pause", "remote_seek", "remote_speed", "all_ready"}
    /\ CanSend(cl) /\ pl.playing /\ pl.position = 1 /\ pl.current_speed = 2



\* C26: while the client shares a clip, from the play_video it sends for the
\* clip until it handles all_ready for it, the media controller does not
\* play that clip.
C26_NoLocalPlayBeforeBarrier ==
    \A v \in pl.sharing : ~(pl.media = v /\ pl.playing)


\* C27: when the video named by room_state is ready and the deferred
\* _apply_sync has run, the media controller holds that video at the reported
\* position, at the reported speed and in the reported playing or paused
\* state, and on this path no ready was sent for the video.
C27_SyncOnJoin ==
    \A t \in pl.timers : t.f = "apply_sync" =>
        \A m \in ShotRuns(t) :
            /\ m.pl.media = t.vid
            /\ m.pl.position = t.st.position
            /\ m.pl.rate = t.st.speed
            /\ m.pl.playing = t.st.playing
            /\ \A i \in 1..Len(m.pl.sent) : m.pl.sent[i].typ # "ready"


\* C28: when a send of the fan-out of a playback event of channel t has
\* failed, the fan-out still ends normally: it reaches every other recipient,
\* the recipients whose send failed are no longer participants, the Room's
\* playback state stays as the handler set it, and t is back in its message
\* loop.
C28_FailedSendTolerated ==
    \A t \in Chans :
        (pc[t] = "bc" /\ bc[t].typ \in PlaybackTypes /\ bc[t].failed # {})
          => \A m \in BcRun(Cur, t) :
                /\ m.pc[t] = "loop"
                /\ m.playback_state = playback_state
                /\ \A r \in m.out : r.by = t => r.res = "done" /\ r.missed = {}
                /\ \A i \in DOMAIN m.users : m.users[i].id \notin bc[t].failed


\* C29: when play_video for a catalogued video v arrives on the channel of
\* the only participant, then after the handler pending_video is absent,
\* playing is true, position is 0, current_video is v, all_ready for v was
\* sent on that channel unless its peer is gone, the handler has started no
\* timeout, and no timeout that still sleeps would change the Room.
C29_SoleCommit ==
    \A c \in Chans : \A v \in videos :
        (Receiving(c) /\ users = <<[id |-> uid[c], ch |-> c]>>)
          => \A m \in PlayVideoRuns(c, v) :
                /\ m.pending_video = 0
                /\ m.playback_state.playing /\ m.playback_state.position = 0
                /\ m.current_video = v
                /\ ws[c] = "open" =>
                      [Msg("all_ready", c, c) EXCEPT !.vid = v] \in m.out
                /\ \A k \in Timers :
                      /\ m.pc[k] = "sleep" => pc[k] = "sleep"
                      /\ m.pc[k] = "sleep" => m.pending_video # m.loc[k].vid

\* the only participant has shared a video while the timeout of an earlier
\* share still sleeps, and the barrier is committed
C29_Reached ==
    /\ nShares = 2 /\ Cardinality(present) = 1
    /\ Len(users) = 1 /\ present = Keys(users)
    /\ current_video # 0 /\ pending_video = 0 /\ playback_state.playing
    /\ \E k \in Timers : pc[k] = "sleep"


\* a play_video for v accepted while a barrier is pending and others are in
\* the Room makes v the pending video and its sender the only ready
\* participant
ReplacesPending ==
    \A c \in Chans : \A v \in videos :
        (Receiving(c) /\ pending_video # 0 /\ Len(users) > 1)
          => \A m \in PlayVideoRuns(c, v) :
                Len(m.users) > 1 => m.pending_video = v /\ m.ready_users = {uid[c]}

\* while a video is pending, a ready message naming another video and the
\* timeout scheduled for another video change nothing and send nothing
OldIgnored ==
    pending_video # 0 =>
        \A v \in Vids \ {pending_video} :
            /\ \A c \in Chans : \A m \in ReadyRuns(c, v) :
                    RoomOf(m) = RoomOf(Cur) /\ m.out = {}
            /\ \A k \in Timers : (pc[k] = "sleep" /\ loc[k].vid = v) =>
                    \A m \in TimerFireRuns(k) : RoomOf(m) = RoomOf(Cur) /\ m.out = {}

\* while a video is pending, the handler of a ready message naming another
\* video, whose ready_progress fan-out is still under way, does not commit
OldInFlight ==
    pending_video # 0 =>
        \A t \in Chans :
            (pc[t] = "bc" /\ bc[t].typ = "ready_progress" /\ bc[t].vid # pending_video)
              => \A m \in BcRun(Cur, t) :
                    /\ m.pending_video = pending_video
                    /\ m.playback_state = playback_state
                    /\ \A r \in m.out : r.typ # "all_ready"

\* C30: a play_video accepted while the Room is SYNCING makes its video the
\* pending one and its sender the only ready participant; from then on the
\* ready messages naming the previous video, whether they arrive now or are
\* still being handled, and the timeout scheduled for the previous video
\* neither commit the barrier nor change or send anything.
C30_Supersede == ReplacesPending /\ OldIgnored /\ OldInFlight

\* C31: the timeout of a barrier that was committed by readiness before the
\* timeout fires changes no Room state and sends no message.
C31_LateTimeoutInert ==
    \A k \in Timers :
        (pc[k] = "sleep" /\ loc[k].met)
          => \A m \in TimerFireRuns(k) : RoomOf(m) = RoomOf(Cur) /\ m.out = {}

\* C32: the handler of a ready message whose ready_progress fan-out was under
\* way while another play_video was processed does not, when it resumes,
\* clear the pending video, set playing to true or broadcast all_ready.
C32_CommitOwnBarrierOnly ==
    \A t \in Chans :
        (pc[t] = "bc" /\ bc[t].typ = "ready_progress" /\ bc[t].ep < nShares)
          => \A m \in BcRun(Cur, t) :
                /\ m.pending_video = pending_video
                /\ m.playback_state.playing => playback_state.playing
                /\ \A r \in m.out : r.typ # "all_ready"

\* C33: the timeout scheduled by a play_video ends only the barrier of that
\* share: when a later share is pending, also one of the same video id, the
\* timeout of the earlier share neither commits the barrier nor sends
\* all_ready.
C33_TimeoutOwnEpisodeOnly ==
    \A k \in Timers :
        (pc[k] = "sleep" /\ pending_video # 0 /\ loc[k].ep < nShares)
          => \A m \in TimerFireRuns(k) :
                /\ m.pending_video = pending_video
                /\ m.playback_state = playback_state
                /\ \A r \in m.out : r.typ # "all_ready"

\* C34: every registered participant holds an id that create_room or a
\* password-checked join_room returned.
C34_OnlyIssuedIds == \A i \in DOMAIN users : users[i].id \in issued

\* C35: while the channel that holds the host's id is receiving, no other
\* channel has its kick or set_shared_pool accepted, and an auth that
\* presents the host's id on another channel leaves that channel without
\* host authority and the host's record in the Room as it is.
C35_HostChannelOnly ==
    \A c \in Chans :
        (Receiving(c) /\ uid[c] = host_id /\ UserGet(users, host_id) = c)
          => /\ \A d \in Chans \ {c} : Receiving(d) => uid[d] # host_id
             /\ \A d \in Chans \ {c} : \A m \in AuthRuns(d, host_id) :
                    /\ m.uid[d] # host_id
                    /\ UserGet(m.users, host_id) = c

\* C36: from the moment the client has handled kicked until the user starts
\* a new join, the client makes no join request and opens no channel.
C36_KickedStaysOut == cl.kicked => cl.after \cap {"post", "open"} = {}

\* C37: every user_left broadcast is for a participant that was still
\* registered when its channel ended and carries that participant's name;
\* the channel of a participant that a kick or a failed send has already
\* removed ends without one.
C37_OneDepartureNotice == \A r \in Outputs : r.typ = "user_left" => r.name # 0

\* C38: on the sharing client, when all_ready for the uploaded clip was the
\* last thing handled and the controller plays the clip, the delayed
\* _host_wait_for_ready scheduled after video_ready leaves it playing.
C38_StaysPlayingAfterAllReady ==
    \A t \in pl.timers :
        (/\ t.f = "host_wait_for_ready" /\ pl.slot = "all_ready"
         /\ pl.media = t.vid /\ t.vid \notin pl.sharing /\ pl.playing)
          => \A m \in ShotRuns(t) : m.pl.playing

\* C39: whenever the client that created the Room can send, also after it
\* has reconnected on its own, it regards itself as the host, and the id
\* its channel has authenticated with is the Room's host_id, the one the
\* server accepts kick and set_shared_pool from.
C39_HostAcrossReconnect ==
    (cl.creating /\ cl.made # 0 /\ ~cl.shutting_down /\ CanSend(cl))
      => IsHost(cl) /\ cl.auth[cl.ws] = cl.made

\* C40: whenever no fan-out of the server is under way, the shared-pool flag
\* of the client, while its channel is open and registered in the Room,
\* equals the Room's shared_pool.
C40_PoolFlagAgrees ==
    (/\ \A t \in Tasks : pc[t] \notin {"bc", "rs", "kick"}
     /\ CanSend(cl) /\ Receiving(SrvChan(cl.ws))
     /\ UserGet(users, uid[SrvChan(cl.ws)]) = SrvChan(cl.ws))
      => pl.session_shared_pool = shared_pool

=============================================================================
